---- MODULE Spec2Model ----
(***************************************************************************)
(* OmniFlow Protocol: the SmartAccount contract (guardian recovery, batch  *)
(* execution, ERC-4337 entry points), the multi-protocol route aggregator  *)
(* and the quote-to-calldata bridge.                                       *)
(***************************************************************************)
EXTENDS Integers, Sequences, FiniteSets, TLC

(***************************************************************************)
(* Bounds of the model.                                                    *)
(***************************************************************************)
NumAddr == 3
MaxRecoveries == 1
MaxDays == 2
MaxNonce == 1
MaxBatch == 2
MaxInitGuardians == 2
InitialBalance == 1
MaxOps == 2
MaxRequests == 2

(***************************************************************************)
(* Addresses.  0 is address(0); 1..NumAddr are externally controlled       *)
(* accounts or contracts; the EntryPoint is a contract of its own.         *)
(***************************************************************************)
ZERO == 0
Users == 1..NumAddr
ENTRY_POINT == NumAddr + 1
Senders == Users \cup {ENTRY_POINT}

DAY == 86400
RECOVERY_PERIOD == 2 * DAY

VARIABLES
    owner, guardians, guardianList, guardianCount, requiredGuardians,
    recoveries, recoveryCounter, nonce, status, balance, now,
    lastCall,
    \* MultiProtocolAggregator.getAggregatedRoutes: one query in progress
    aggPc, params, pending, responses, routeResults, analyzedRoutes, splitStrategies, aggError,
    \* the protocols whose queries have settled, in the order they settled
    settled,
    \* SmartAggregatorBridge.generateAcrossCallData: the route given and the outcome
    acrossRoute, callData,
    \* the token of a provider request: the symbol asked for and the address sent
    tokenQuery, tokenSent,
    \* SmartAggregatorBridge.generateContractExecutionData: the strategy given, the outcome
    strategyGiven, executionData,
    \* OmniFlowSmartAggregator: its storage with the source token's balances and
    \* allowances, and the outcome of the last executeAggregatedRoute
    router, routeCall,
    \* SmartAccountFactory: its storage, and the outcome of the last createSmartAccount
    factory, created

acctVars == <<owner, guardians, guardianList, guardianCount, requiredGuardians,
              recoveries, recoveryCounter, nonce, status, balance, now>>

aggVars == <<aggPc, params, pending, responses, routeResults, analyzedRoutes, splitStrategies,
             aggError, settled>>
factoryVars == <<factory, created>>
bridgeVars == <<acrossRoute, callData, tokenQuery, tokenSent, strategyGiven, executionData,
                router, routeCall, factory, created>>

vars == <<owner, guardians, guardianList, guardianCount, requiredGuardians,
          recoveries, recoveryCounter, nonce, status, balance, now, lastCall,
          aggPc, params, pending, responses, routeResults, analyzedRoutes, splitStrategies,
          aggError, settled, acrossRoute, callData, tokenQuery, tokenSent, strategyGiven,
          executionData, router, routeCall, factory, created>>

\* an absent (undefined) value is the empty tuple, a present value v is <<v>>
None == <<>>
Some(v) == <<v>>

\* no aggregation has been requested
AggregatorIdle ==
    /\ aggPc = "idle"
    /\ params = None
    /\ pending = {}
    /\ responses = [p \in {} |-> None]
    /\ routeResults = [p \in {} |-> None]
    /\ analyzedRoutes = <<>>
    /\ splitStrategies = <<>>
    /\ aggError = None
    /\ settled = <<>>

\* the caller's tokens: enough for a call of 1000, the smallest amount the protocol
\* fee of 10 basis points is not zero for, and a second call of 500
InitialTokens == 1500
\* the calls of the aggregator explored one after the other
MaxRouteCalls == 2

\* OmniFlowSmartAggregator after its constructor and _initializeProtocols; amounts
\* are in units of 10^15 wei, so that minAmountForSplit = 0.5 ether is 500
\* the accounts the factory is asked for, one after the other
MaxAccounts == 2
\* the creation fee the factory is deployed with, in units of 0.001 ether
CreationFee == 1

\* SmartAccountFactory after its constructor
FactoryDeployed ==
    [creationFee |-> CreationFee, entryPoint |-> ENTRY_POINT,
     ownerToAccounts |-> [a \in Users |-> <<>>], allAccounts |-> <<>>, accountCount |-> 0]

\* the chains whose SpokePool is looked up: Ethereum, and one the constructor leaves unset
SpokeChains == {1, 2}

RouterDeployed ==
    [lifiDiamond |-> "lifiDiamond",
     acrossSpokePools |-> [chainId \in SpokeChains |->
                              IF chainId = 1 THEN "spokePool" ELSE "zero"],
     trustedBridges |-> {"lifiDiamond", "spokePool"},
     protocolFeeBps |-> 10, feeRecipient |-> "feeRecipient",
     minGlobalSecurityScore |-> 70, maxFeePercentage |-> 200, minAmountForSplit |-> 500,
     balanceOf |-> [a \in {"user", "aggregator", "feeRecipient", "lifiDiamond", "spokePool",
                           "otherBridge"} |-> IF a = "user" THEN InitialTokens ELSE 0],
     allowance |-> [a \in {"lifiDiamond", "spokePool", "otherBridge"} |-> 0]]

\* no calldata has been requested
BridgeIdle ==
    /\ acrossRoute = None
    /\ callData = None
    /\ tokenQuery = None
    /\ tokenSent = None
    /\ strategyGiven = None
    /\ executionData = None
    /\ router = RouterDeployed
    /\ routeCall = None
    /\ factory = FactoryDeployed
    /\ created = None

(***************************************************************************)
(* The storage of one SmartAccount, as a record the functions transform.   *)
(***************************************************************************)
St == [owner |-> owner, guardians |-> guardians, guardianList |-> guardianList,
       guardianCount |-> guardianCount, requiredGuardians |-> requiredGuardians,
       recoveries |-> recoveries, recoveryCounter |-> recoveryCounter,
       nonce |-> nonce, status |-> status, balance |-> balance, now |-> now]

\* struct Recovery, and the zero value a mapping returns for an unused id
ZeroRecovery == [newOwner |-> ZERO, confirmations |-> 0, confirmed |-> {},
                 timestamp |-> 0, executed |-> FALSE]

Recovery(s, recoveryId) ==
    IF recoveryId \in DOMAIN s.recoveries THEN s.recoveries[recoveryId] ELSE ZeroRecovery

SetRecovery(s, recoveryId, r) ==
    [s EXCEPT !.recoveries =
        [i \in (DOMAIN s.recoveries) \cup {recoveryId} |->
            IF i = recoveryId THEN r ELSE s.recoveries[i]]]

\* outcome of one call: committed state and events, or the entry state and a reason
Success(s, ev) ==
    [ok |-> TRUE, st |-> s, events |-> ev, reason |-> "", results |-> <<>>, nested |-> <<>>]
Reverted(s, why) ==
    [ok |-> FALSE, st |-> s, events |-> <<>>, reason |-> why, results |-> <<>>, nested |-> <<>>]

onlyOwner(s, sender) == sender = s.owner
onlyGuardian(s, sender) == sender \in s.guardians
onlyEntryPoint(s, sender) == sender = ENTRY_POINT

\* addGuardian without the duplicate check
addGuardianAgain(s, sender, guardian) ==
    IF ~onlyOwner(s, sender) THEN Reverted(s, "SmartAccount: caller is not the owner")
    ELSE IF guardian = ZERO THEN Reverted(s, "SmartAccount: guardian cannot be zero address")
    ELSE IF guardian = s.owner THEN Reverted(s, "SmartAccount: owner cannot be guardian")
    ELSE Success([s EXCEPT !.guardians = @ \cup {guardian},
                           !.guardianList = Append(@, guardian),
                           !.guardianCount = @ + 1],
                 << <<"GuardianAdded", guardian>> >>)

addGuardian(s, sender, guardian) ==
    IF ~onlyOwner(s, sender) THEN Reverted(s, "SmartAccount: caller is not the owner")
    ELSE IF guardian = ZERO THEN Reverted(s, "SmartAccount: guardian cannot be zero address")
    ELSE IF guardian \in s.guardians THEN Reverted(s, "SmartAccount: guardian already exists")
    ELSE IF guardian = s.owner THEN Reverted(s, "SmartAccount: owner cannot be guardian")
    ELSE Success([s EXCEPT !.guardians = @ \cup {guardian},
                           !.guardianList = Append(@, guardian),
                           !.guardianCount = @ + 1],
                 << <<"GuardianAdded", guardian>> >>)

\* the swap-with-last-and-pop loop of removeGuardian
RemoveFromList(list, guardian) ==
    IF \E i \in 1..Len(list) : list[i] = guardian
    THEN LET i == CHOOSE j \in 1..Len(list) :
                      /\ list[j] = guardian
                      /\ \A k \in 1..(j-1) : list[k] # guardian
         IN  SubSeq([list EXCEPT ![i] = list[Len(list)]], 1, Len(list) - 1)
    ELSE list

\* removeGuardian without the threshold check
removeGuardianUnchecked(s, sender, guardian) ==
    IF ~onlyOwner(s, sender) THEN Reverted(s, "SmartAccount: caller is not the owner")
    ELSE IF guardian \notin s.guardians THEN Reverted(s, "SmartAccount: guardian does not exist")
    ELSE Success([s EXCEPT !.guardians = @ \ {guardian},
                           !.guardianList = RemoveFromList(@, guardian),
                           !.guardianCount = @ - 1],
                 << <<"GuardianRemoved", guardian>> >>)

removeGuardian(s, sender, guardian) ==
    IF ~onlyOwner(s, sender) THEN Reverted(s, "SmartAccount: caller is not the owner")
    ELSE IF guardian \notin s.guardians THEN Reverted(s, "SmartAccount: guardian does not exist")
    ELSE IF ~(s.guardianCount > s.requiredGuardians)
         THEN Reverted(s, "SmartAccount: cannot remove guardian, would fall below required count")
    ELSE Success([s EXCEPT !.guardians = @ \ {guardian},
                           !.guardianList = RemoveFromList(@, guardian),
                           !.guardianCount = @ - 1],
                 << <<"GuardianRemoved", guardian>> >>)

\* initiateRecovery that writes the newest request again instead of a new one
initiateRecoveryReusingId(s, sender, newOwner) ==
    IF ~onlyGuardian(s, sender) THEN Reverted(s, "SmartAccount: caller is not a guardian")
    ELSE IF newOwner = ZERO THEN Reverted(s, "SmartAccount: new owner cannot be zero address")
    ELSE IF newOwner = s.owner THEN Reverted(s, "SmartAccount: new owner is current owner")
    ELSE LET recoveryId == s.recoveryCounter - (IF s.recoveryCounter > 0 THEN 1 ELSE 0)
             s1 == [s EXCEPT !.recoveryCounter = recoveryId + 1]
             r  == [Recovery(s, recoveryId) EXCEPT !.newOwner = newOwner,
                                                   !.timestamp = s.now,
                                                   !.confirmed = @ \cup {sender},
                                                   !.confirmations = 1]
         IN  Success(SetRecovery(s1, recoveryId, r),
                     << <<"RecoveryInitiated", newOwner, recoveryId>> >>)

initiateRecovery(s, sender, newOwner) ==
    IF ~onlyGuardian(s, sender) THEN Reverted(s, "SmartAccount: caller is not a guardian")
    ELSE IF newOwner = ZERO THEN Reverted(s, "SmartAccount: new owner cannot be zero address")
    ELSE IF newOwner = s.owner THEN Reverted(s, "SmartAccount: new owner is current owner")
    ELSE LET recoveryId == s.recoveryCounter
             s1 == [s EXCEPT !.recoveryCounter = @ + 1]
             r  == [Recovery(s, recoveryId) EXCEPT !.newOwner = newOwner,
                                                   !.timestamp = s.now,
                                                   !.confirmed = @ \cup {sender},
                                                   !.confirmations = 1]
         IN  Success(SetRecovery(s1, recoveryId, r),
                     << <<"RecoveryInitiated", newOwner, recoveryId>> >>)

\* _executeRecovery that forgets to mark the request executed
executeRecoveryUnmarked(s, recoveryId) ==
    LET r == Recovery(s, recoveryId) IN
    Success([s EXCEPT !.owner = r.newOwner],
            << <<"RecoveryExecuted", r.newOwner, recoveryId>>,
               <<"OwnerChanged", s.owner, r.newOwner>> >>)

\* _executeRecovery: returns the new state and the two events
_executeRecovery(s, recoveryId) ==
    LET r == Recovery(s, recoveryId)
        s1 == [s EXCEPT !.owner = r.newOwner]
    IN  Success(SetRecovery(s1, recoveryId, [r EXCEPT !.executed = TRUE]),
                << <<"RecoveryExecuted", r.newOwner, recoveryId>>,
                   <<"OwnerChanged", s.owner, r.newOwner>> >>)

\* confirmRecovery without the already-confirmed check
confirmRecoveryTwice(s, sender, recoveryId) ==
    LET r == Recovery(s, recoveryId) IN
    IF ~onlyGuardian(s, sender) THEN Reverted(s, "SmartAccount: caller is not a guardian")
    ELSE IF r.newOwner = ZERO THEN Reverted(s, "SmartAccount: recovery does not exist")
    ELSE IF r.executed THEN Reverted(s, "SmartAccount: recovery already executed")
    ELSE LET r1 == [r EXCEPT !.confirmed = @ \cup {sender}, !.confirmations = @ + 1]
             s1 == SetRecovery(s, recoveryId, r1)
         IN  IF r1.confirmations >= s.requiredGuardians
                /\ s.now >= r1.timestamp + RECOVERY_PERIOD
             THEN _executeRecovery(s1, recoveryId)
             ELSE Success(s1, <<>>)

\* confirmRecovery that executes as soon as the confirmations suffice
confirmRecoveryNoDelay(s, sender, recoveryId) ==
    LET r == Recovery(s, recoveryId) IN
    IF ~onlyGuardian(s, sender) THEN Reverted(s, "SmartAccount: caller is not a guardian")
    ELSE IF r.newOwner = ZERO THEN Reverted(s, "SmartAccount: recovery does not exist")
    ELSE IF r.executed THEN Reverted(s, "SmartAccount: recovery already executed")
    ELSE IF sender \in r.confirmed THEN Reverted(s, "SmartAccount: already confirmed")
    ELSE LET r1 == [r EXCEPT !.confirmed = @ \cup {sender}, !.confirmations = @ + 1]
             s1 == SetRecovery(s, recoveryId, r1)
         IN  IF r1.confirmations >= s.requiredGuardians
             THEN _executeRecovery(s1, recoveryId)
             ELSE Success(s1, <<>>)

confirmRecovery(s, sender, recoveryId) ==
    LET r == Recovery(s, recoveryId) IN
    IF ~onlyGuardian(s, sender) THEN Reverted(s, "SmartAccount: caller is not a guardian")
    ELSE IF r.newOwner = ZERO THEN Reverted(s, "SmartAccount: recovery does not exist")
    ELSE IF r.executed THEN Reverted(s, "SmartAccount: recovery already executed")
    ELSE IF sender \in r.confirmed THEN Reverted(s, "SmartAccount: already confirmed")
    ELSE LET r1 == [r EXCEPT !.confirmed = @ \cup {sender}, !.confirmations = @ + 1]
             s1 == SetRecovery(s, recoveryId, r1)
         IN  IF r1.confirmations >= s.requiredGuardians
                /\ s.now >= r1.timestamp + RECOVERY_PERIOD
             THEN _executeRecovery(s1, recoveryId)
             ELSE Success(s1, <<>>)

\* executeRecovery without the waiting period
executeRecoveryNoDelay(s, sender, recoveryId) ==
    LET r == Recovery(s, recoveryId) IN
    IF ~(r.confirmations >= s.requiredGuardians)
    THEN Reverted(s, "SmartAccount: insufficient confirmations")
    ELSE IF r.executed THEN Reverted(s, "SmartAccount: recovery already executed")
    ELSE _executeRecovery(s, recoveryId)

\* executeRecovery without the already-executed check
executeRecoveryRepeatable(s, sender, recoveryId) ==
    LET r == Recovery(s, recoveryId) IN
    IF ~(r.confirmations >= s.requiredGuardians)
    THEN Reverted(s, "SmartAccount: insufficient confirmations")
    ELSE IF ~(s.now >= r.timestamp + RECOVERY_PERIOD)
    THEN Reverted(s, "SmartAccount: recovery period not passed")
    ELSE _executeRecovery(s, recoveryId)

executeRecovery(s, sender, recoveryId) ==
    LET r == Recovery(s, recoveryId) IN
    IF ~(r.confirmations >= s.requiredGuardians)
    THEN Reverted(s, "SmartAccount: insufficient confirmations")
    ELSE IF ~(s.now >= r.timestamp + RECOVERY_PERIOD)
    THEN Reverted(s, "SmartAccount: recovery period not passed")
    ELSE IF r.executed THEN Reverted(s, "SmartAccount: recovery already executed")
    ELSE _executeRecovery(s, recoveryId)

(***************************************************************************)
(* External calls.  The callee is arbitrary code: it may accept the call,  *)
(* revert, or call back into the account (msg.sender = the callee) before  *)
(* returning; one level of call-back is modelled.                          *)
(***************************************************************************)
NOT_ENTERED == 1
ENTERED == 2

Accept == [kind |-> "accept", op |-> "", a |-> ZERO, id |-> 0]
Refuse == [kind |-> "revert", op |-> "", a |-> ZERO, id |-> 0]
Reenter(op, a, id) == [kind |-> "reenter", op |-> op, a |-> a, id |-> id]

\* address(this).balance after sending value
Debit(s, value) == [s EXCEPT !.balance = @ - value]

RECURSIVE ExternalCall(_, _, _, _)
RECURSIVE execute(_, _, _, _, _)
RECURSIVE batchExecute(_, _, _, _)

\* the account's functions as the callee can call them
Dispatch(s, sender, c) ==
    CASE c.op = "addGuardian"      -> addGuardian(s, sender, c.a)
      [] c.op = "removeGuardian"   -> removeGuardian(s, sender, c.a)
      [] c.op = "initiateRecovery" -> initiateRecovery(s, sender, c.a)
      [] c.op = "confirmRecovery"  -> confirmRecovery(s, sender, c.id)
      [] c.op = "executeRecovery"  -> executeRecovery(s, sender, c.id)
      [] c.op = "execute"          -> execute(s, sender, c.a, 0, Accept)
      [] c.op = "batchExecute"     -> batchExecute(s, sender, << [to |-> c.a, value |-> 0] >>, << Accept >>)

\* target.call{value: value}(data): [ok, st, events, nested], nested being the calls
\* the callee made back into the account, each with its outcome
ExternalCall(s, to, value, beh) ==
    IF s.balance < value \/ beh.kind = "revert"
    THEN [ok |-> FALSE, st |-> s, events |-> <<>>, nested |-> <<>>]
    ELSE LET s1 == Debit(s, value) IN
         IF beh.kind = "reenter"
         THEN LET r == Dispatch(s1, to, beh) IN
              [ok |-> TRUE, st |-> r.st, events |-> r.events,
               nested |-> << [op |-> beh.op, ok |-> r.ok, reason |-> r.reason,
                              effect |-> r.st # s1] >>]
         ELSE [ok |-> TRUE, st |-> s1, events |-> <<>>, nested |-> <<>>]

\* OpenZeppelin ReentrancyGuard.nonReentrant
nonReentrantBefore(s) == [s EXCEPT !.status = ENTERED]
nonReentrantAfter(s) == [s EXCEPT !.status = NOT_ENTERED]

\* execute without the nonReentrant modifier
executeUnguarded(s, sender, to, value, beh) ==
    IF ~onlyOwner(s, sender) THEN Reverted(s, "SmartAccount: caller is not the owner")
    ELSE IF to = ZERO THEN Reverted(s, "SmartAccount: target cannot be zero address")
    ELSE LET r == ExternalCall(s, to, value, beh) IN
         IF ~r.ok
         THEN [Reverted(s, "SmartAccount: execution failed: ") EXCEPT !.results = << FALSE >>]
         ELSE [Success(r.st, r.events) EXCEPT !.results = << TRUE >>, !.nested = r.nested]

execute(s, sender, to, value, beh) ==
    IF ~onlyOwner(s, sender) THEN Reverted(s, "SmartAccount: caller is not the owner")
    ELSE IF s.status = ENTERED THEN Reverted(s, "ReentrancyGuard: reentrant call")
    ELSE IF to = ZERO THEN Reverted(s, "SmartAccount: target cannot be zero address")
    ELSE LET r == ExternalCall(nonReentrantBefore(s), to, value, beh) IN
         IF ~r.ok
         THEN [Reverted(s, "SmartAccount: execution failed: ") EXCEPT !.results = << FALSE >>]
         ELSE [Success(nonReentrantAfter(r.st), r.events) EXCEPT !.results = << TRUE >>,
                                                                  !.nested = r.nested]

\* the for loop of batchExecute from sub-call i on: [ok, st, events, results, nested]
RECURSIVE BatchLoop(_, _, _, _)
BatchLoop(s, calls, behs, i) ==
    IF i > Len(calls)
    THEN [ok |-> TRUE, st |-> s, events |-> <<>>, results |-> <<>>, nested |-> <<>>]
    ELSE LET r == ExternalCall(s, calls[i].to, calls[i].value, behs[i]) IN
         IF ~r.ok
         THEN [ok |-> FALSE, st |-> s, events |-> <<>>, results |-> << FALSE >>,
               nested |-> <<>>]
         ELSE LET rest == BatchLoop(r.st, calls, behs, i + 1) IN
              [ok |-> rest.ok, st |-> rest.st, events |-> r.events \o rest.events,
               results |-> << TRUE >> \o rest.results,
               nested |-> r.nested \o rest.nested]

\* batchExecute that returns at the failing sub-call instead of reverting
batchExecuteBestEffort(s, sender, calls, behs) ==
    IF ~onlyOwner(s, sender) THEN Reverted(s, "SmartAccount: caller is not the owner")
    ELSE IF s.status = ENTERED THEN Reverted(s, "ReentrancyGuard: reentrant call")
    ELSE IF ~(Len(calls) > 0) THEN Reverted(s, "SmartAccount: empty calls array")
    ELSE LET r == BatchLoop(nonReentrantBefore(s), calls, behs, 1) IN
         IF ~r.ok
         THEN [Reverted(nonReentrantAfter(r.st), "SmartAccount: call failed") EXCEPT !.results = r.results]
         ELSE [Success(nonReentrantAfter(r.st), r.events \o << <<"BatchExecuted">> >>)
                  EXCEPT !.results = r.results, !.nested = r.nested]

\* batchExecute without the onlyOwner modifier
batchExecuteAnyCaller(s, sender, calls, behs) ==
    IF s.status = ENTERED THEN Reverted(s, "ReentrancyGuard: reentrant call")
    ELSE IF ~(Len(calls) > 0) THEN Reverted(s, "SmartAccount: empty calls array")
    ELSE LET r == BatchLoop(nonReentrantBefore(s), calls, behs, 1) IN
         IF ~r.ok
         THEN [Reverted(s, "SmartAccount: call failed") EXCEPT !.results = r.results]
         ELSE [Success(nonReentrantAfter(r.st), r.events \o << <<"BatchExecuted">> >>)
                  EXCEPT !.results = r.results, !.nested = r.nested]

batchExecute(s, sender, calls, behs) ==
    IF ~onlyOwner(s, sender) THEN Reverted(s, "SmartAccount: caller is not the owner")
    ELSE IF s.status = ENTERED THEN Reverted(s, "ReentrancyGuard: reentrant call")
    ELSE IF ~(Len(calls) > 0) THEN Reverted(s, "SmartAccount: empty calls array")
    ELSE LET r == BatchLoop(nonReentrantBefore(s), calls, behs, 1) IN
         IF ~r.ok
         THEN [Reverted(s, "SmartAccount: call failed") EXCEPT !.results = r.results]
         ELSE [Success(nonReentrantAfter(r.st), r.events \o << <<"BatchExecuted">> >>)
                  EXCEPT !.results = r.results, !.nested = r.nested]

payGasWithToken(s, sender, token, amount, recipient, beh) ==
    IF ~onlyOwner(s, sender) THEN Reverted(s, "SmartAccount: caller is not the owner")
    ELSE IF token = ZERO THEN Reverted(s, "SmartAccount: token cannot be zero address")
    ELSE IF recipient = ZERO THEN Reverted(s, "SmartAccount: recipient cannot be zero address")
    ELSE IF ~(amount > 0) THEN Reverted(s, "SmartAccount: amount must be greater than zero")
    ELSE LET r == ExternalCall(s, token, 0, beh) IN
         IF ~r.ok THEN Reverted(s, "token transfer reverted")
         ELSE [Success(r.st, r.events \o << <<"GasPaymentExecuted", token, amount>> >>)
                  EXCEPT !.nested = r.nested]

\* _validateSignature: 0 when the recovered signer is the owner, 1 otherwise
_validateSignature(s, signer) == IF signer = s.owner THEN 0 ELSE 1

\* a validation that accepts any nonce
validateUserOpAnyNonce(s, sender, opNonce, signer, missingAccountFunds, beh) ==
    IF ~onlyEntryPoint(s, sender) THEN Reverted(s, "SmartAccount: caller is not EntryPoint")
    ELSE LET validationData == _validateSignature(s, signer)
             s1 == [s EXCEPT !.nonce = @ + 1]
         IN  IF missingAccountFunds > 0
             THEN LET r == ExternalCall(s1, sender, missingAccountFunds, beh) IN
                  IF ~r.ok THEN Reverted(s, "SmartAccount: failed to pay prefund")
                  ELSE [Success(r.st, r.events) EXCEPT !.results = << validationData = 0 >>,
                                                       !.nested = r.nested]
             ELSE [Success(s1, <<>>) EXCEPT !.results = << validationData = 0 >>]

validateUserOp(s, sender, opNonce, signer, missingAccountFunds, beh) ==
    IF ~onlyEntryPoint(s, sender) THEN Reverted(s, "SmartAccount: caller is not EntryPoint")
    ELSE IF opNonce # s.nonce THEN Reverted(s, "SmartAccount: invalid nonce")
    ELSE LET validationData == _validateSignature(s, signer)
             s1 == [s EXCEPT !.nonce = @ + 1]
         IN  IF missingAccountFunds > 0
             THEN LET r == ExternalCall(s1, sender, missingAccountFunds, beh) IN
                  IF ~r.ok THEN Reverted(s, "SmartAccount: failed to pay prefund")
                  ELSE [Success(r.st, r.events) EXCEPT !.results = << validationData = 0 >>,
                                                       !.nested = r.nested]
             ELSE [Success(s1, <<>>) EXCEPT !.results = << validationData = 0 >>]

\* _call: bubbles the callee's revert
_call(s, target, value, beh) ==
    LET r == ExternalCall(s, target, value, beh) IN
    IF ~r.ok THEN Reverted(s, "callee reverted")
    ELSE [Success(r.st, r.events) EXCEPT !.nested = r.nested]

executeUserOp(s, sender, dest, value, beh) ==
    IF ~onlyEntryPoint(s, sender) THEN Reverted(s, "SmartAccount: caller is not EntryPoint")
    ELSE _call(s, dest, value, beh)

(***************************************************************************)
(* EntryPoint.handleOp.  userOp is [nonce, signer, callData], signer the   *)
(* address its signature recovers to; callData is a call of the account,   *)
(* made with the EntryPoint as msg.sender: of executeUserOp(dest, value)   *)
(* or of validateUserOp for an operation with nonce opNonce.  A failing    *)
(* call is reported in UserOperationEvent (1 success, 0 failure) and does  *)
(* not revert handleOp.                                                    *)
(***************************************************************************)
CallExecuteUserOp(dest, value) ==
    [fn |-> "executeUserOp", dest |-> dest, value |-> value, opNonce |-> 0, signer |-> ZERO]
CallValidateUserOp(opNonce, signer) ==
    [fn |-> "validateUserOp", dest |-> ZERO, value |-> 0, opNonce |-> opNonce,
     signer |-> signer]

handleOp(s, userOp, beh) ==
    LET v == validateUserOp(s, ENTRY_POINT, userOp.nonce, userOp.signer, 0, Accept) IN
    IF ~v.ok THEN Reverted(s, v.reason)
    ELSE IF ~v.results[1] THEN Reverted(s, "EntryPoint: validation failed")
    ELSE LET c == IF userOp.callData.fn = "executeUserOp"
                  THEN executeUserOp(v.st, ENTRY_POINT, userOp.callData.dest,
                                     userOp.callData.value, beh)
                  ELSE validateUserOp(v.st, ENTRY_POINT, userOp.callData.opNonce,
                                      userOp.callData.signer, 0, Accept)
         IN  [Success(c.st, c.events \o << <<"UserOperationEvent", userOp.nonce,
                                             IF c.ok THEN 1 ELSE 0>> >>)
                 EXCEPT !.nested = c.nested]

(***************************************************************************)
(* Construction.                                                           *)
(***************************************************************************)
HasDuplicate(list) == \E i, j \in 1..Len(list) : i < j /\ list[i] = list[j]

\* a constructor that does not look for an address given twice
constructorWithDuplicates(_owner, _guardians, _requiredGuardians, _entryPoint) ==
    LET zero == [owner |-> ZERO, guardians |-> {}, guardianList |-> <<>>,
                 guardianCount |-> 0, requiredGuardians |-> 0,
                 recoveries |-> [i \in {} |-> ZeroRecovery], recoveryCounter |-> 0,
                 nonce |-> 0, status |-> NOT_ENTERED,
                 balance |-> InitialBalance,
                 now |-> RECOVERY_PERIOD]
    IN
    IF _owner = ZERO \/ _entryPoint = ZERO
       \/ ~(_requiredGuardians > 0 /\ _requiredGuardians <= Len(_guardians))
       \/ \E i \in 1..Len(_guardians) : _guardians[i] = ZERO
    THEN Reverted(zero, "SmartAccount: invalid deployment")
    ELSE Success([zero EXCEPT !.owner = _owner,
                              !.requiredGuardians = _requiredGuardians,
                              !.guardians = {_guardians[i] : i \in 1..Len(_guardians)},
                              !.guardianList = _guardians,
                              !.guardianCount = Len(_guardians)],
                 << <<"OwnerChanged", ZERO, _owner>> >>)

constructor(_owner, _guardians, _requiredGuardians, _entryPoint) ==
    LET zero == [owner |-> ZERO, guardians |-> {}, guardianList |-> <<>>,
                 guardianCount |-> 0, requiredGuardians |-> 0,
                 recoveries |-> [i \in {} |-> ZeroRecovery], recoveryCounter |-> 0,
                 nonce |-> 0, status |-> NOT_ENTERED,
                 balance |-> InitialBalance,
                 now |-> RECOVERY_PERIOD]
    IN
    IF _owner = ZERO THEN Reverted(zero, "SmartAccount: owner cannot be zero address")
    ELSE IF _entryPoint = ZERO THEN Reverted(zero, "SmartAccount: entryPoint cannot be zero address")
    ELSE IF ~(_requiredGuardians > 0 /\ _requiredGuardians <= Len(_guardians))
    THEN Reverted(zero, "SmartAccount: invalid required guardians count")
    ELSE IF \E i \in 1..Len(_guardians) : _guardians[i] = ZERO
    THEN Reverted(zero, "SmartAccount: guardian cannot be zero address")
    ELSE IF HasDuplicate(_guardians) THEN Reverted(zero, "SmartAccount: duplicate guardian")
    ELSE Success([zero EXCEPT !.owner = _owner,
                              !.requiredGuardians = _requiredGuardians,
                              !.guardians = {_guardians[i] : i \in 1..Len(_guardians)},
                              !.guardianList = _guardians,
                              !.guardianCount = Len(_guardians)],
                 << <<"OwnerChanged", ZERO, _owner>> >>)

(***************************************************************************)
(* SmartAccountFactory.  keccak256 is taken to have no collisions: a hash  *)
(* is the tuple of what was hashed, and an address derived from a hash is  *)
(* that hash.  The factory's own address is "factory".                     *)
(***************************************************************************)
\* abi.encodePacked(type(SmartAccount).creationCode, abi.encode(arguments))
InitCode(arguments) == << "SmartAccount.creationCode" >> \o arguments

\* the address CREATE2 gives: keccak256(0xff ++ deployer ++ salt ++ keccak256(initCode))
Create2Address(deployer, salt, initCode) == << "0xff", deployer, salt, initCode >>

isSmartAccount(f, account) == \E i \in 1..Len(f.allAccounts) : f.allAccounts[i] = account

\* create2 returns address(0) when the address holds code already or the
\* constructor reverts
createSmartAccount(f, value, _owner, _guardians, _requiredGuardians, _salt) ==
    LET bytecode == InitCode(<< _owner, _guardians, _requiredGuardians, f.entryPoint >>)
        target == Create2Address("factory", _salt, bytecode)
        account == IF isSmartAccount(f, target)
                      \/ ~constructor(_owner, _guardians, _requiredGuardians, f.entryPoint).ok
                   THEN None ELSE Some(target)
        refused(why) == [ok |-> FALSE, st |-> f, reason |-> why, account |-> None]
    IN  IF ~(value >= f.creationFee) THEN refused("SmartAccountFactory: insufficient fee")
        ELSE IF _owner = ZERO
        THEN refused("SmartAccountFactory: owner cannot be zero address")
        ELSE IF ~(Len(_guardians) >= _requiredGuardians)
        THEN refused("SmartAccountFactory: not enough guardians")
        ELSE IF ~(_requiredGuardians > 0)
        THEN refused("SmartAccountFactory: required guardians must be greater than zero")
        ELSE IF account = None THEN refused("SmartAccountFactory: deployment failed")
        ELSE [ok |-> TRUE,
              st |-> [f EXCEPT !.ownerToAccounts[_owner] = Append(@, account[1]),
                               !.allAccounts = Append(@, account[1]),
                               !.accountCount = @ + 1],
              reason |-> "", account |-> account]

getSmartAccountAddress(f, _owner, _guardians, _requiredGuardians, _salt) ==
    LET bytecode == InitCode(<< _owner, _guardians, _requiredGuardians >>)
    IN  Create2Address("factory", _salt, bytecode)

\* the deployments asked for: with and without the fee, a zero owner, guardians given
\* twice, more guardians required than given, two salts
FactoryCalls ==
    [value : {0, CreationFee}, owner : {ZERO, 1}, guardians : {<<>>, <<2>>, <<2, 3>>, <<2, 2>>},
     requiredGuardians : 0..2, salt : {1, 2}]

\* as the deployment script does: the address is asked for, then the account created
CreateSmartAccount ==
    \E call \in FactoryCalls :
        LET predicted == getSmartAccountAddress(factory, call.owner, call.guardians,
                                                call.requiredGuardians, call.salt)
            r == createSmartAccount(factory, call.value, call.owner, call.guardians,
                                    call.requiredGuardians, call.salt)
        IN  /\ factory.accountCount < MaxAccounts
            /\ factory' = r.st
            /\ created' = Some([call |-> call, predicted |-> predicted, ok |-> r.ok,
                                reason |-> r.reason, account |-> r.account,
                                before |-> factory])
            /\ UNCHANGED <<acctVars, lastCall, aggVars, acrossRoute, callData, tokenQuery,
                           tokenSent, strategyGiven, executionData, router, routeCall>>

NextFactory == CreateSmartAccount

\* the arguments of a call have been used for an account before
CreatedBefore(c) ==
    \E i \in 1..Len(c.before.allAccounts) :
        c.before.allAccounts[i]
            = Create2Address("factory", c.call.salt,
                             InitCode(<< c.call.owner, c.call.guardians,
                                         c.call.requiredGuardians, c.before.entryPoint >>))

\* C40: the address getSmartAccountAddress returns for (owner, guardians,
\* requiredGuardians, salt) is the address at which createSmartAccount with the same
\* arguments deploys the account, and a createSmartAccount with arguments and salt
\* that have been used before reverts.
C40_PredictedAddressIsDeployed ==
    created # None =>
        /\ created[1].ok => created[1].account = Some(created[1].predicted)
        /\ CreatedBefore(created[1]) => ~created[1].ok

(***************************************************************************)
(* Inputs the transactions are drawn from.                                 *)
(***************************************************************************)
Addresses == {ZERO} \cup Users
RecIds == 0..MaxRecoveries
Values == {0, 1}
SeqsUpTo(S, n) == UNION {[1..k -> S] : k \in 0..n}

Callbacks ==
    {Reenter(op, a, 0) : op \in {"addGuardian", "removeGuardian", "initiateRecovery"}, a \in {1, 2}}
    \cup {Reenter(op, 1, 0) : op \in {"execute", "batchExecute"}}
    \cup {Reenter(op, ZERO, id) : op \in {"confirmRecovery", "executeRecovery"}, id \in RecIds}
Behaviours == {Accept, Refuse} \cup Callbacks
FewBehaviours ==
    {Accept, Refuse, Reenter("executeRecovery", ZERO, 0), Reenter("execute", 1, 0)}
BatchBehaviours == {Accept, Refuse, Reenter("executeRecovery", ZERO, 0)}
\* what the callees of a batch do; a call back into batchExecute is explored on
\* batches of one call
BatchBehavioursOf(calls) ==
    IF Len(calls) = 1
    THEN [1..1 -> BatchBehaviours \cup {Reenter("batchExecute", 1, 0)}]
    ELSE [1..Len(calls) -> BatchBehaviours]
BatchCalls == SeqsUpTo([to : {2}, value : Values], MaxBatch)

(***************************************************************************)
(* One transaction: the state the call leaves and its observable outcome.  *)
(***************************************************************************)
Apply(op, r) ==
    /\ owner' = r.st.owner
    /\ guardians' = r.st.guardians
    /\ guardianList' = r.st.guardianList
    /\ guardianCount' = r.st.guardianCount
    /\ requiredGuardians' = r.st.requiredGuardians
    /\ recoveries' = r.st.recoveries
    /\ recoveryCounter' = r.st.recoveryCounter
    /\ nonce' = r.st.nonce
    /\ status' = r.st.status
    /\ balance' = r.st.balance
    /\ now' = r.st.now
    /\ lastCall' = [op |-> op, ok |-> r.ok, reason |-> r.reason,
                    events |-> r.events, results |-> r.results, nested |-> r.nested]
    /\ UNCHANGED <<aggVars, bridgeVars>>

\* a transaction within the bounds of the model
Commit(op, r) ==
    /\ r.st.recoveryCounter <= MaxRecoveries
    /\ r.st.nonce <= MaxNonce
    /\ Apply(op, r)

\* the state a successful deployment leaves
Deployed(_owner, _guardians, _requiredGuardians) ==
    LET r == constructor(_owner, _guardians, _requiredGuardians, ENTRY_POINT) IN
    /\ r.ok
    /\ owner = r.st.owner
    /\ guardians = r.st.guardians
    /\ guardianList = r.st.guardianList
    /\ guardianCount = r.st.guardianCount
    /\ requiredGuardians = r.st.requiredGuardians
    /\ recoveries = r.st.recoveries
    /\ recoveryCounter = r.st.recoveryCounter
    /\ nonce = r.st.nonce
    /\ status = r.st.status
    /\ balance = r.st.balance
    /\ now = r.st.now
    /\ lastCall = [op |-> "constructor", ok |-> TRUE, reason |-> "",
                   events |-> r.events, results |-> <<>>, nested |-> <<>>]

\* addresses are interchangeable: the deployer's owner is address 1 (or the rejected 0)
Init ==
    /\ \E _owner \in {ZERO, 1}, _guardians \in SeqsUpTo(Addresses, MaxInitGuardians),
          _requiredGuardians \in 0..MaxInitGuardians :
            Deployed(_owner, _guardians, _requiredGuardians)
    /\ AggregatorIdle
    /\ BridgeIdle

\* a deployment with two guardians, both required
InitAccount == Deployed(1, <<2, 3>>, 2) /\ AggregatorIdle /\ BridgeIdle

AddGuardian(sender, guardian) == Commit("addGuardian", addGuardian(St, sender, guardian))
RemoveGuardian(sender, guardian) == Commit("removeGuardian", removeGuardian(St, sender, guardian))
InitiateRecovery(sender, newOwner) == Commit("initiateRecovery", initiateRecovery(St, sender, newOwner))
ConfirmRecovery(sender, recoveryId) == Commit("confirmRecovery", confirmRecovery(St, sender, recoveryId))
ExecuteRecovery(sender, recoveryId) == Commit("executeRecovery", executeRecovery(St, sender, recoveryId))
Execute(sender, to, value, beh) == Commit("execute", execute(St, sender, to, value, beh))
BatchExecute(sender, calls, behs) == Commit("batchExecute", batchExecute(St, sender, calls, behs))
PayGasWithToken(sender, token, amount, recipient, beh) ==
    Commit("payGasWithToken", payGasWithToken(St, sender, token, amount, recipient, beh))
ValidateUserOp(sender, opNonce, signer, funds, beh) ==
    Commit("validateUserOp", validateUserOp(St, sender, opNonce, signer, funds, beh))
ExecuteUserOp(sender, dest, value, beh) ==
    Commit("executeUserOp", executeUserOp(St, sender, dest, value, beh))

\* block.timestamp advances between transactions
Tick ==
    /\ now + DAY <= RECOVERY_PERIOD + MaxDays * DAY
    /\ now' = now + DAY
    /\ lastCall' = [op |-> "tick", ok |-> TRUE, reason |-> "", events |-> <<>>, results |-> <<>>,
                    nested |-> <<>>]
    /\ UNCHANGED <<owner, guardians, guardianList, guardianCount, requiredGuardians,
                   recoveries, recoveryCounter, nonce, status, balance>>
    /\ UNCHANGED <<aggVars, bridgeVars>>

DoAddGuardian == \E sender \in Senders, guardian \in Addresses : AddGuardian(sender, guardian)
DoRemoveGuardian == \E sender \in Senders, guardian \in Addresses : RemoveGuardian(sender, guardian)
DoInitiateRecovery == \E sender \in Senders, newOwner \in Addresses : InitiateRecovery(sender, newOwner)
DoConfirmRecovery == \E sender \in Senders, recoveryId \in RecIds : ConfirmRecovery(sender, recoveryId)
DoExecuteRecovery == \E sender \in Senders, recoveryId \in RecIds : ExecuteRecovery(sender, recoveryId)
\* the owner's and the EntryPoint's calls meet every input, the other callers' one;
\* call-backs are explored on calls that carry no value
DoExecute ==
    \E sender \in Senders :
        \E to \in IF sender = owner THEN Addresses ELSE {2}, value \in Values :
            \E beh \in IF sender # owner THEN {Accept}
                        ELSE IF value = 0 THEN Behaviours ELSE {Accept, Refuse} :
                Execute(sender, to, value, beh)
DoBatchExecute ==
    \E sender \in Senders :
        \E calls \in IF sender = owner THEN BatchCalls ELSE {<< [to |-> 2, value |-> 1] >>} :
            \E behs \in IF sender = owner THEN BatchBehavioursOf(calls)
                         ELSE [1..Len(calls) -> {Accept}] :
                BatchExecute(sender, calls, behs)
DoPayGasWithToken ==
    \E sender \in Senders :
        \E token \in IF sender = owner THEN {ZERO, 2} ELSE {2},
           amount \in IF sender = owner THEN Values ELSE {1},
           recipient \in IF sender = owner THEN {ZERO, 3} ELSE {3} :
            \E beh \in IF sender = owner THEN FewBehaviours ELSE {Accept} :
                PayGasWithToken(sender, token, amount, recipient, beh)
DoValidateUserOp ==
    \E sender \in {1, ENTRY_POINT}, opNonce \in 0..MaxNonce, signer \in {1, 2}, funds \in Values :
        \E beh \in IF funds = 0 \/ sender # ENTRY_POINT THEN {Accept} ELSE FewBehaviours :
            ValidateUserOp(sender, opNonce, signer, funds, beh)
DoExecuteUserOp ==
    \E sender \in {1, ENTRY_POINT}, dest \in {ZERO, 2}, value \in Values :
        \E beh \in IF sender = ENTRY_POINT THEN FewBehaviours ELSE {Accept} :
            ExecuteUserOp(sender, dest, value, beh)

\* guardian management and recovery
Next ==
    \/ DoAddGuardian
    \/ DoRemoveGuardian
    \/ DoInitiateRecovery
    \/ DoConfirmRecovery
    \/ DoExecuteRecovery
    \/ Tick

Spec == Init /\ [][Next]_vars

\* every state-changing function of the account
NextAccount ==
    \/ DoAddGuardian
    \/ DoRemoveGuardian
    \/ DoInitiateRecovery
    \/ DoConfirmRecovery
    \/ DoExecuteRecovery
    \/ DoExecute
    \/ DoBatchExecute
    \/ DoPayGasWithToken
    \/ DoValidateUserOp
    \/ DoExecuteUserOp
    \/ Tick

SpecAccount == InitAccount /\ [][NextAccount]_vars

\* the factory alone
SpecFactory == InitAccount /\ [][NextFactory]_vars

\* the recovery functions alone, with room for several requests
RecoveryIds == 0..MaxRequests
CommitRecovery(op, r) ==
    /\ r.st.recoveryCounter <= MaxRequests
    /\ Apply(op, r)
RecoveryInitiate(sender, newOwner) ==
    CommitRecovery("initiateRecovery", initiateRecovery(St, sender, newOwner))
RecoveryConfirm(sender, recoveryId) ==
    CommitRecovery("confirmRecovery", confirmRecovery(St, sender, recoveryId))
RecoveryExecute(sender, recoveryId) ==
    CommitRecovery("executeRecovery", executeRecovery(St, sender, recoveryId))
DoRecoveryInitiate == \E sender \in Senders, newOwner \in Addresses : RecoveryInitiate(sender, newOwner)
DoRecoveryConfirm == \E sender \in Senders, recoveryId \in RecoveryIds : RecoveryConfirm(sender, recoveryId)
DoRecoveryExecute == \E sender \in Senders, recoveryId \in RecoveryIds : RecoveryExecute(sender, recoveryId)

NextRecovery ==
    \/ DoRecoveryInitiate
    \/ DoRecoveryConfirm
    \/ DoRecoveryExecute
    \/ Tick

SpecRecovery == InitAccount /\ [][NextRecovery]_vars

\* user operations: the account's functions the EntryPoint calls, the EntryPoint's
\* handleOp, and the recovery that replaces the signing owner
CommitOp(op, r) ==
    /\ r.st.recoveryCounter <= MaxRecoveries
    /\ r.st.nonce <= MaxOps
    /\ Apply(op, r)
UserOps ==
    [nonce : 0..MaxOps, signer : {1, 2},
     callData : {CallExecuteUserOp(2, value) : value \in Values}
                \cup {CallValidateUserOp(opNonce, 2) : opNonce \in 0..MaxOps}]
HandleOp(userOp, beh) == CommitOp("handleOp", handleOp(St, userOp, beh))
DoHandleOp ==
    \E userOp \in UserOps :
        \E beh \in IF userOp.callData.fn = "executeUserOp" THEN FewBehaviours ELSE {Accept} :
            HandleOp(userOp, beh)
DirectValidateUserOp ==
    \E sender \in {1, ENTRY_POINT}, opNonce \in 0..MaxOps, signer \in {1, 2}, funds \in Values :
        \E beh \in IF funds = 0 \/ sender # ENTRY_POINT THEN {Accept} ELSE FewBehaviours :
            CommitOp("validateUserOp", validateUserOp(St, sender, opNonce, signer, funds, beh))

DirectExecuteUserOp ==
    \E sender \in {1, ENTRY_POINT}, dest \in {ZERO, 2}, value \in Values :
        \E beh \in IF sender = ENTRY_POINT THEN FewBehaviours ELSE {Accept} :
            CommitOp("executeUserOp", executeUserOp(St, sender, dest, value, beh))
OwnerRecoveryInitiate ==
    \E sender \in Senders, newOwner \in Addresses :
        CommitOp("initiateRecovery", initiateRecovery(St, sender, newOwner))
OwnerRecoveryConfirm ==
    \E sender \in Senders, recoveryId \in RecIds :
        CommitOp("confirmRecovery", confirmRecovery(St, sender, recoveryId))
OwnerRecoveryExecute ==
    \E sender \in Senders, recoveryId \in RecIds :
        CommitOp("executeRecovery", executeRecovery(St, sender, recoveryId))

NextEntryPoint ==
    \/ DoHandleOp
    \/ DirectValidateUserOp
    \/ DirectExecuteUserOp
    \/ OwnerRecoveryInitiate
    \/ OwnerRecoveryConfirm
    \/ OwnerRecoveryExecute
    \/ Tick

SpecEntryPoint == InitAccount /\ [][NextEntryPoint]_vars

(***************************************************************************)
(* Properties of the SmartAccount.                                         *)
(***************************************************************************)
RecoveryAfter(recoveryId) ==
    IF recoveryId \in DOMAIN recoveries' THEN recoveries'[recoveryId] ELSE ZeroRecovery

\* the request has enough confirmations, its waiting period is over and it is pending
Executable(recoveryId) ==
    LET r == Recovery(St, recoveryId) IN
    /\ r.confirmations >= requiredGuardians
    /\ now >= r.timestamp + RECOVERY_PERIOD
    /\ ~r.executed

\* C1: executeRecovery(id) succeeds and makes the proposed owner the owner exactly
\* when the request has at least requiredGuardians confirmations, RECOVERY_PERIOD
\* has elapsed since it was initiated and it is not yet executed; otherwise the
\* call reverts and nothing changes, whoever has confirmed.
C1_ExecuteRecoveryIff ==
    [][lastCall'.op = "executeRecovery" =>
        \A sender \in Senders, recoveryId \in RecIds :
          ExecuteRecovery(sender, recoveryId) =>
              /\ lastCall'.ok <=> Executable(recoveryId)
              /\ Executable(recoveryId) =>
                    /\ owner' = Recovery(St, recoveryId).newOwner
                    /\ RecoveryAfter(recoveryId).executed
              /\ ~Executable(recoveryId) => UNCHANGED acctVars]_vars

\* a recovery confirmed by two guardians has been executed after the waiting period
C1_Witness ==
    /\ lastCall.op = "executeRecovery"
    /\ lastCall.ok
    /\ requiredGuardians = 2
    /\ Recovery(St, 0).executed
    /\ Recovery(St, 0).confirmations = 2
    /\ owner = Recovery(St, 0).newOwner
    /\ now >= Recovery(St, 0).timestamp + RECOVERY_PERIOD

\* C3: confirmRecovery by an address that has already confirmed the request (the
\* initiator included) reverts and leaves every request unchanged, and in every
\* state the confirmations counter of a request is the number of distinct
\* addresses recorded as having confirmed it.
C3_ConfirmOnce ==
    /\ [](\A recoveryId \in DOMAIN recoveries :
            recoveries[recoveryId].confirmations = Cardinality(recoveries[recoveryId].confirmed))
    /\ [][lastCall'.op = "confirmRecovery" =>
          \A sender \in Senders, recoveryId \in RecIds :
            (ConfirmRecovery(sender, recoveryId) /\ sender \in Recovery(St, recoveryId).confirmed)
                => (~lastCall'.ok /\ recoveries' = recoveries)]_vars

\* a guardian's second confirmation of a pending request has been rejected
C3_Witness ==
    /\ lastCall.op = "confirmRecovery"
    /\ ~lastCall.ok
    /\ lastCall.reason = "SmartAccount: already confirmed"
    /\ \E recoveryId \in DOMAIN recoveries : recoveries[recoveryId].confirmations >= 2

\* C4: removeGuardian reverts whenever the removal would take guardianCount below
\* requiredGuardians, and guardianCount >= requiredGuardians >= 1 in every state.
C4_GuardianThreshold ==
    /\ [](guardianCount >= requiredGuardians /\ requiredGuardians >= 1)
    /\ [][(lastCall'.op = "removeGuardian" /\ guardianCount - 1 < requiredGuardians)
                => (~lastCall'.ok /\ UNCHANGED acctVars)]_vars

\* the owner's removal of a guardian was rejected because the count is at the threshold
C4_Witness ==
    /\ lastCall.op = "removeGuardian"
    /\ ~lastCall.ok
    /\ lastCall.reason = "SmartAccount: cannot remove guardian, would fall below required count"
    /\ guardianCount = requiredGuardians

\* C7: in every state the owner is not a guardian.
C7_OwnerNotGuardian == owner \notin guardians

\* C2: batchExecute is all-or-nothing: when a sub-call fails the call reverts, it
\* stops at that sub-call, nothing any sub-call did persists, and BatchExecuted is
\* emitted only when every sub-call succeeded.
C2_BatchAllOrNothing ==
    [][lastCall'.op = "batchExecute" =>
        LET res == lastCall'.results
            emitted == \E e \in 1..Len(lastCall'.events) : lastCall'.events[e] = <<"BatchExecuted">>
        IN
        /\ (\E i \in 1..Len(res) : ~res[i]) =>
              /\ ~lastCall'.ok
              /\ lastCall'.events = <<>>
              /\ UNCHANGED acctVars
              /\ \A j \in 1..Len(res) : ~res[j] => j = Len(res)
        /\ emitted =>
              /\ lastCall'.ok
              /\ Len(res) >= 1
              /\ \A i \in 1..Len(res) : res[i]
              /\ \A calls \in BatchCalls :
                    Len(res) # Len(calls) =>
                        \A sender \in Senders, behs \in BatchBehavioursOf(calls) :
                            ~BatchExecute(sender, calls, behs)]_vars

\* a batch whose first sub-call succeeded and whose second failed has been reverted
C2_Witness ==
    /\ lastCall.op = "batchExecute"
    /\ ~lastCall.ok
    /\ lastCall.results = << TRUE, FALSE >>

\* some event of the transaction reports an executed recovery
RecoveryExecutedIn(events) == \E e \in 1..Len(events) : events[e][1] = "RecoveryExecuted"

\* C10 as stated: addGuardian, removeGuardian, initiateRecovery, a confirmRecovery
\* that does not execute, execute, batchExecute, payGasWithToken, validateUserOp and
\* executeUserOp all leave owner unchanged.
C10_OnlyRecoveryFunctionsChangeOwner ==
    [][(\/ lastCall'.op \in {"addGuardian", "removeGuardian", "initiateRecovery", "execute",
                             "batchExecute", "payGasWithToken", "validateUserOp",
                             "executeUserOp"}
        \/ (lastCall'.op = "confirmRecovery" /\ ~RecoveryExecutedIn(lastCall'.events)))
          => owner' = owner]_vars

\* C10, amended: the owner changes only in a transaction that executes a pending
\* recovery request, whose proposed owner becomes the owner; addGuardian,
\* removeGuardian and initiateRecovery never change it, and a call of execute,
\* batchExecute, payGasWithToken, validateUserOp or executeUserOp changes it only
\* when the contract it calls calls executeRecovery or confirmRecovery back and
\* that nested call executes a recovery (the transaction emits RecoveryExecuted).
C10_OwnerChangesOnlyByRecovery ==
    [][/\ owner' # owner =>
            /\ \E recoveryId \in DOMAIN recoveries :
                  /\ ~recoveries[recoveryId].executed
                  /\ RecoveryAfter(recoveryId).executed
                  /\ owner' = recoveries[recoveryId].newOwner
            /\ \E e \in 1..Len(lastCall'.events) :
                  /\ lastCall'.events[e][1] = "RecoveryExecuted"
                  /\ lastCall'.events[e][2] = owner'
       /\ lastCall'.op \in {"addGuardian", "removeGuardian", "initiateRecovery"}
            => owner' = owner
       /\ ~RecoveryExecutedIn(lastCall'.events) => owner' = owner]_vars

\* the owner changed during an execute whose callee called executeRecovery back
C10_Witness ==
    /\ lastCall.op = "execute"
    /\ lastCall.ok
    /\ \E e \in 1..Len(lastCall.events) :
          /\ lastCall.events[e][1] = "OwnerChanged"
          /\ lastCall.events[e][3] = owner

\* C11: confirmRecovery(id) of a pending request by a guardian who has not yet
\* confirmed it succeeds and raises its confirmations by one; the same call executes
\* the recovery (owner becomes the proposed owner, executed becomes true) exactly
\* when the raised count reaches requiredGuardians and RECOVERY_PERIOD has elapsed
\* since the request was made; otherwise owner and the executed flag stay as they are.
C11_ConfirmAutoExecutes ==
    [][lastCall'.op = "confirmRecovery" =>
        \A sender \in Senders, recoveryId \in RecIds :
          LET r == Recovery(St, recoveryId)
              due == /\ r.confirmations + 1 >= requiredGuardians
                     /\ now - r.timestamp >= RECOVERY_PERIOD
          IN  (/\ ConfirmRecovery(sender, recoveryId)
               /\ sender \in guardians
               /\ recoveryId \in DOMAIN recoveries
               /\ ~r.executed
               /\ sender \notin r.confirmed)
              => /\ lastCall'.ok
                 /\ RecoveryAfter(recoveryId).confirmations = r.confirmations + 1
                 /\ RecoveryAfter(recoveryId).confirmed = r.confirmed \cup {sender}
                 /\ RecoveryAfter(recoveryId).newOwner = r.newOwner
                 /\ RecoveryAfter(recoveryId).timestamp = r.timestamp
                 /\ RecoveryAfter(recoveryId).executed <=> due
                 /\ RecoveryExecutedIn(lastCall'.events) <=> due
                 /\ due => owner' = r.newOwner
                 /\ ~due => owner' = owner]_vars

\* the second guardian's confirmation, given after the waiting period, executed the
\* recovery in the same call
C11_Witness ==
    /\ lastCall.op = "confirmRecovery"
    /\ lastCall.ok
    /\ RecoveryExecutedIn(lastCall.events)
    /\ Recovery(St, 0).executed
    /\ Recovery(St, 0).confirmations = 2
    /\ owner = Recovery(St, 0).newOwner

\* C12: initiateRecovery(newOwner) succeeds exactly when the caller is a guardian
\* and newOwner is neither the zero address nor the current owner; it then creates
\* a request under the next unused id (the ids in use are 0, 1, 2, ... without gaps)
\* with proposedOwner = newOwner, one confirmation, the initiator's, executed =
\* false, and leaves every existing request as it was; a rejected call changes nothing.
C12_InitiateRecoveryFreshId ==
    /\ [](DOMAIN recoveries = 0..(recoveryCounter - 1))
    /\ [][lastCall'.op = "initiateRecovery" =>
          \A sender \in Senders, newOwner \in Addresses :
            RecoveryInitiate(sender, newOwner) =>
              /\ lastCall'.ok <=>
                    (sender \in guardians /\ newOwner # ZERO /\ newOwner # owner)
              /\ lastCall'.ok =>
                    /\ recoveryCounter \notin DOMAIN recoveries
                    /\ recoveryCounter' = recoveryCounter + 1
                    /\ DOMAIN recoveries' = DOMAIN recoveries \cup {recoveryCounter}
                    /\ recoveries'[recoveryCounter] =
                          [newOwner |-> newOwner, confirmations |-> 1, confirmed |-> {sender},
                           timestamp |-> now, executed |-> FALSE]
                    /\ \A i \in DOMAIN recoveries : recoveries'[i] = recoveries[i]
                    /\ lastCall'.events = << <<"RecoveryInitiated", newOwner, recoveryCounter>> >>
                    /\ owner' = owner
              /\ ~lastCall'.ok => UNCHANGED acctVars]_vars

\* a second request has been made under id 1 while request 0 holds two confirmations
C12_Witness ==
    /\ lastCall.op = "initiateRecovery"
    /\ lastCall.ok
    /\ recoveryCounter = 2
    /\ recoveries[1].confirmations = 1
    /\ recoveries[0].confirmations = 2

\* C13: a recovery request is executed at most once and never changes afterwards:
\* once executed = true, every executeRecovery(id) and confirmRecovery(id) on it
\* reverts without effect, no transaction changes its proposedOwner, confirmations,
\* confirmers, timestamp or executed flag, and RecoveryExecuted is emitted for an id
\* only in the transaction that takes it from pending to executed.
C13_ExecutedIsFinal ==
    /\ [][\A recoveryId \in DOMAIN recoveries :
            recoveries[recoveryId].executed =>
                /\ recoveryId \in DOMAIN recoveries'
                /\ recoveries'[recoveryId] = recoveries[recoveryId]]_vars
    /\ [][lastCall'.op \in {"confirmRecovery", "executeRecovery"} =>
            \A sender \in Senders, recoveryId \in RecoveryIds :
              (/\ RecoveryConfirm(sender, recoveryId) \/ RecoveryExecute(sender, recoveryId)
               /\ Recovery(St, recoveryId).executed)
              => (~lastCall'.ok /\ UNCHANGED acctVars)]_vars
    /\ [][\A e \in 1..Len(lastCall'.events) :
            lastCall'.events[e][1] = "RecoveryExecuted" =>
                /\ ~Recovery(St, lastCall'.events[e][3]).executed
                /\ RecoveryAfter(lastCall'.events[e][3]).executed]_vars

\* executeRecovery on the executed request 0 has been rejected while request 1 is pending
C13_Witness ==
    /\ lastCall.op = "executeRecovery"
    /\ ~lastCall.ok
    /\ lastCall.reason = "SmartAccount: recovery already executed"
    /\ Recovery(St, 0).executed
    /\ recoveryCounter = 2
    /\ ~Recovery(St, 1).executed

\* C14: every call of execute or batchExecute that the callee makes back into the
\* account while the external call of an execute or batchExecute is in progress is
\* rejected and changes nothing; the guard is released when the outer call is over:
\* between transactions the status is NOT_ENTERED and no top-level call is ever
\* turned away by the guard.
C14_NoReentry ==
    /\ [](status = NOT_ENTERED)
    /\ [](lastCall.reason # "ReentrancyGuard: reentrant call")
    /\ [][lastCall'.op \in {"execute", "batchExecute"} =>
            \A n \in 1..Len(lastCall'.nested) :
                lastCall'.nested[n].op \in {"execute", "batchExecute"} =>
                    /\ ~lastCall'.nested[n].ok
                    /\ ~lastCall'.nested[n].effect]_vars

\* the owner's execute went through although its callee, the owner itself, called
\* execute back and was stopped by the guard
C14_Witness ==
    /\ lastCall.op = "execute"
    /\ lastCall.ok
    /\ Len(lastCall.nested) = 1
    /\ lastCall.nested[1].op = "execute"
    /\ lastCall.nested[1].reason = "ReentrancyGuard: reentrant call"
    /\ status = NOT_ENTERED

\* C15: addGuardian succeeds exactly when the caller is the owner and the address is
\* non-zero, not yet a guardian and not the owner, and then adds that one guardian;
\* removeGuardian by a non-owner or of an address that is no guardian is rejected;
\* every rejected addGuardian or removeGuardian leaves the guardian set, the
\* guardian list and guardianCount as they were.
C15_GuardianSetMutation ==
    [][/\ lastCall'.op = "addGuardian" =>
            \A sender \in Senders, guardian \in Addresses :
              AddGuardian(sender, guardian) =>
                /\ lastCall'.ok <=>
                      /\ sender = owner
                      /\ guardian # ZERO
                      /\ guardian \notin guardians
                      /\ guardian # owner
                /\ lastCall'.ok =>
                      /\ guardians' = guardians \cup {guardian}
                      /\ guardianCount' = guardianCount + 1
       /\ (lastCall'.op = "removeGuardian" /\ lastCall'.ok) =>
            \A sender \in Senders, guardian \in Addresses :
              RemoveGuardian(sender, guardian) => (sender = owner /\ guardian \in guardians)
       /\ (lastCall'.op \in {"addGuardian", "removeGuardian"} /\ ~lastCall'.ok) =>
            /\ guardians' = guardians
            /\ guardianList' = guardianList
            /\ guardianCount' = guardianCount]_vars

\* the owner's attempt to make itself a guardian has been rejected
C15_Witness ==
    /\ lastCall.op = "addGuardian"
    /\ ~lastCall.ok
    /\ lastCall.reason = "SmartAccount: owner cannot be guardian"
    /\ owner \notin guardians

\* C16: execute and batchExecute make an external call only for a caller that is the
\* owner at the time of the call (after a recovery the former owner is rejected and
\* the new owner accepted); the owner's execute to a non-zero target that accepts
\* the call succeeds when the balance covers the value; batchExecute with an empty
\* list reverts; a rejected call transfers no value and changes nothing.  (The calls
\* of the other callers are the ones DoExecute and DoBatchExecute give them.)
C16_OnlyCurrentOwnerExecutes ==
    [][/\ (lastCall'.op = "execute" /\ (lastCall'.ok \/ lastCall'.results # <<>>)) =>
            \A sender \in Senders \ {owner}, value \in Values :
                ~Execute(sender, 2, value, Accept)
       /\ lastCall'.op = "execute" =>
            \A to \in Addresses, value \in Values :
                Execute(owner, to, value, Accept) =>
                    (lastCall'.ok <=> (to # ZERO /\ value <= balance))
       /\ (lastCall'.op = "batchExecute" /\ (lastCall'.ok \/ lastCall'.results # <<>>)) =>
            /\ \A sender \in Senders \ {owner} :
                  ~BatchExecute(sender, << [to |-> 2, value |-> 1] >>, << Accept >>)
            /\ \A sender \in Senders : ~BatchExecute(sender, <<>>, <<>>)
       /\ (lastCall'.op \in {"execute", "batchExecute"} /\ ~lastCall'.ok) =>
            /\ balance' = balance
            /\ UNCHANGED acctVars]_vars

\* after a recovery replaced owner 1, the new owner's execute has sent value out
C16_Witness ==
    /\ lastCall.op = "execute"
    /\ lastCall.ok
    /\ lastCall.results = << TRUE >>
    /\ lastCall.nested = <<>>
    /\ owner # 1
    /\ balance < InitialBalance

\* the requests executed so far
ExecutedRecoveries == {id \in DOMAIN recoveries : recoveries[id].executed}

\* request b was initiated before request a executed: ids are handed out in the
\* order of initiation, and a request executes no earlier than RECOVERY_PERIOD after
\* its own initiation
InitiatedBeforeExecutionOf(b, a) ==
    \/ b < a
    \/ recoveries[b].timestamp < recoveries[a].timestamp + RECOVERY_PERIOD

\* C30: once a recovery request has executed and changed the owner, no request
\* initiated before that execution executes and changes the owner again.  The first
\* request to execute always changes the owner (initiateRecovery refuses the current
\* owner), so: when one request a has executed, a step that executes another request
\* b and changes the owner executes a request initiated after a executed.
C30_OwnerChangeInvalidatesOlder ==
    [][\A a \in DOMAIN recoveries, b \in DOMAIN recoveries :
          (/\ ExecutedRecoveries = {a}
           /\ ~recoveries[b].executed
           /\ recoveries'[b].executed
           /\ owner' # owner)
          => ~InitiatedBeforeExecutionOf(b, a)]_vars

\* C31: when a recovery executes, the threshold is met by confirmations of addresses
\* that are guardians at that moment: the confirmers that are still guardians are
\* requiredGuardians or more (the confirmation of a guardian removed since does not
\* count).
\* C39: in every state of an account guardianCount is the length of guardianList, no
\* address is listed twice, and the addresses listed (getGuardians) are exactly those
\* whose guardians flag is set (isGuardian).
C39_GuardianListMatchesMapping ==
    /\ guardianCount = Len(guardianList)
    /\ ~HasDuplicate(guardianList)
    /\ \A a \in Addresses : (\E i \in 1..Len(guardianList) : guardianList[i] = a) <=> a \in guardians

\* the owner has removed a guardian that was not the last of the list, the last one
\* having taken its place, and two guardians remain
C39_Witness ==
    /\ lastCall.op = "removeGuardian"
    /\ lastCall.ok
    /\ guardianCount = 2
    /\ guardianList[1] > guardianList[2]

C31_ConfirmersAreGuardians ==
    [][\A id \in DOMAIN recoveries' :
          (/\ recoveries'[id].executed
           /\ id \in DOMAIN recoveries => ~recoveries[id].executed)
          => Cardinality(recoveries'[id].confirmed \cap guardians') >= requiredGuardians']_vars

\* the nonce never decreases; where validateUserOp is called it succeeds only for
\* the EntryPoint and for userOp.nonce = nonce, and then leaves nonce + 1; where
\* handleOp is called it succeeds only for userOp.nonce = nonce and for the owner's
\* signature; no other function changes the nonce
NonceGuardsValidation ==
    /\ nonce' >= nonce
    /\ lastCall'.op = "validateUserOp" =>
          \A sender \in {1, ENTRY_POINT}, opNonce \in 0..MaxOps, signer \in {1, 2},
             funds \in Values :
               LET r == validateUserOp(St, sender, opNonce, signer, funds, Accept) IN
               r.ok => /\ sender = ENTRY_POINT
                       /\ opNonce = nonce
                       /\ r.st.nonce = nonce + 1
    /\ lastCall'.op = "handleOp" =>
          \A userOp \in UserOps :
             handleOp(St, userOp, Accept).ok => (userOp.nonce = nonce /\ userOp.signer = owner)
    /\ (lastCall'.op = "validateUserOp" /\ lastCall'.ok) => nonce' = nonce + 1
    /\ (lastCall'.op \notin {"validateUserOp", "handleOp"} \/ ~lastCall'.ok) => nonce' = nonce

\* the nonce of the operation a successful handleOp reports
HandledNonce(call) == call.events[Len(call.events)][2]

\* C28 as stated: the nonce never decreases, validateUserOp reverts unless
\* userOp.nonce equals the nonce, and every user operation handleOp accepts has
\* the current nonce and advances the nonce by exactly one.
C28_NonceAdvancesByOne ==
    [][/\ NonceGuardsValidation
       /\ (lastCall'.op = "handleOp" /\ lastCall'.ok) =>
             /\ HandledNonce(lastCall') = nonce
             /\ nonce' = nonce + 1]_vars

\* C28, amended: the nonce never decreases, validateUserOp reverts unless
\* userOp.nonce equals the nonce and every successful validateUserOp leaves the
\* nonce one higher; every user operation handleOp accepts has the current nonce
\* and leaves the nonce above it, so no operation is handled twice; the nonce is
\* one higher unless the operation's call is itself a validateUserOp for the next
\* nonce, and then two higher.
C28_NonceNeverReused ==
    [][/\ NonceGuardsValidation
       /\ (lastCall'.op = "handleOp" /\ lastCall'.ok) =>
             /\ HandledNonce(lastCall') = nonce
             /\ nonce' \in {nonce + 1, nonce + 2}
             /\ \A userOp \in UserOps :
                   userOp.nonce <= HandledNonce(lastCall') =>
                       ~handleOp(St', userOp, Accept).ok]_vars

\* handleOp has executed the owner's operation with nonce 0, whose call sent value
\* out, and then refused the same operation again
C28_Witness ==
    /\ lastCall.op = "handleOp"
    /\ ~lastCall.ok
    /\ lastCall.reason = "SmartAccount: invalid nonce"
    /\ nonce = 1
    /\ balance < InitialBalance

(***************************************************************************)
(* OmniFlowSmartAggregator.executeAggregatedRoute.  s is the contract's    *)
(* storage together with the source token's balances and the allowances    *)
(* the contract has given.  A bridge call "fills" (returns true after      *)
(* pulling the approved amount), "skips" (returns true, pulls nothing) or  *)
(* "fails" (returns false).  A function returns [ok, st, reason, events,   *)
(* calls, success]; a revert leaves st as it was.                          *)
(***************************************************************************)
RouteReverted(s, why) ==
    [ok |-> FALSE, st |-> s, reason |-> why, events |-> <<>>, calls |-> <<>>, success |-> FALSE]

\* IERC20.transfer / transferFrom of the source token, the balance check done by the caller
Transfer(s, from, to, amount) ==
    [s EXCEPT !.balanceOf[from] = @ - amount, !.balanceOf[to] = @ + amount]

\* forceApprove followed by route.bridge.call{value: route.value}(route.callData)
BridgeCall(s, route, amount, outcome) ==
    LET approved == [s EXCEPT !.allowance[route.bridge] = amount]
        pulled == [Transfer(approved, "aggregator", route.bridge, amount)
                       EXCEPT !.allowance[route.bridge] = 0]
    IN  [st |-> IF outcome = "fills" THEN pulled ELSE approved,
         success |-> outcome # "fails",
         call |-> [bridge |-> route.bridge, value |-> route.value, approved |-> amount,
                   outcome |-> outcome]]

_executeSingleRoute(s, sender, route, amount, outcome) ==
    IF route.bridge \notin s.trustedBridges THEN RouteReverted(s, "Untrusted bridge")
    ELSE IF route.callData = "empty" THEN RouteReverted(s, "Empty callData")
    ELSE LET c == BridgeCall(s, route, amount, outcome) IN
         [ok |-> TRUE, st |-> c.st, reason |-> "",
          events |-> << [name |-> "ProtocolRouteExecuted", user |-> sender,
                         protocol |-> route.protocol, amount |-> amount,
                         success |-> c.success] >>,
          calls |-> << c.call >>, success |-> c.success]

\* the loop of _executeSplitRoute from route i on; acc holds the storage, amountUsed,
\* allSuccess, and the events and calls so far
RECURSIVE SplitLoop(_, _, _, _, _, _)
SplitLoop(acc, sender, routes, totalAmount, outcomes, i) ==
    IF i > Len(routes) THEN acc
    ELSE LET route == routes[i] IN
         IF route.bridge \notin acc.st.trustedBridges
         THEN RouteReverted(acc.st, "Untrusted bridge")
         ELSE IF route.callData = "empty" THEN RouteReverted(acc.st, "Empty callData")
         ELSE IF acc.amountUsed + route.amount > totalAmount
         THEN RouteReverted(acc.st, "Amount overflow")
         ELSE IF outcomes[i] = "fills" /\ acc.st.balanceOf["aggregator"] < route.amount
         THEN SplitLoop([acc EXCEPT
                            !.st = [acc.st EXCEPT !.allowance[route.bridge] = route.amount],
                            !.success = FALSE,
                            !.events = Append(@, [name |-> "ProtocolRouteExecuted",
                                                  user |-> sender, protocol |-> route.protocol,
                                                  amount |-> route.amount, success |-> FALSE]),
                            !.calls = Append(@, [bridge |-> route.bridge, value |-> route.value,
                                                 approved |-> route.amount,
                                                 outcome |-> "fails"]),
                            !.amountUsed = @ + route.amount],
                        sender, routes, totalAmount, outcomes, i + 1)
         ELSE LET c == BridgeCall(acc.st, route, route.amount, outcomes[i]) IN
              SplitLoop([acc EXCEPT
                            !.st = c.st,
                            !.success = acc.success /\ c.success,
                            !.events = Append(@, [name |-> "ProtocolRouteExecuted",
                                                  user |-> sender, protocol |-> route.protocol,
                                                  amount |-> route.amount,
                                                  success |-> c.success]),
                            !.calls = Append(@, c.call),
                            !.amountUsed = @ + route.amount],
                        sender, routes, totalAmount, outcomes, i + 1)

_executeSplitRoute(s, sender, routes, totalAmount, outcomes) ==
    IF Len(routes) < 2 THEN RouteReverted(s, "Split requires 2+ routes")
    ELSE LET r == SplitLoop([ok |-> TRUE, st |-> s, reason |-> "", events |-> <<>>,
                             calls |-> <<>>, success |-> TRUE, amountUsed |-> 0],
                            sender, routes, totalAmount, outcomes, 1)
         IN  IF ~r.ok THEN RouteReverted(s, r.reason)
             ELSE [ok |-> TRUE, st |-> r.st, reason |-> "",
                   events |-> IF Len(routes) = 2
                              THEN Append(r.events,
                                          [name |-> "RouteSplit", user |-> sender,
                                           protocol1 |-> routes[1].protocol,
                                           amount1 |-> routes[1].amount,
                                           protocol2 |-> routes[2].protocol,
                                           amount2 |-> routes[2].amount])
                              ELSE r.events,
                   calls |-> r.calls, success |-> r.success]

\* an execution that does not look at the deadline
executeAggregatedRouteAnyTime(s, sender, sourceToken, strategy, approved, outcomes, timestamp) ==
    LET protocolFee == (strategy.totalAmount * s.protocolFeeBps) \div 10000
        netAmount == strategy.totalAmount - protocolFee
        collected == Transfer(s, sender, "aggregator", strategy.totalAmount)
        charged == IF protocolFee > 0
                   THEN Transfer(collected, "aggregator", s.feeRecipient, protocolFee)
                   ELSE collected
        r == IF strategy.strategyType = "single-route"
             THEN _executeSingleRoute(charged, sender, strategy.routes[1], netAmount, outcomes[1])
             ELSE _executeSplitRoute(charged, sender, strategy.routes, netAmount, outcomes)
    IN  IF Len(strategy.routes) = 0 THEN RouteReverted(s, "No routes provided")
        ELSE IF strategy.totalAmount = 0 THEN RouteReverted(s, "Invalid amount")
        ELSE IF sourceToken = "zero" THEN RouteReverted(s, "Invalid token")
        ELSE IF strategy.securityScore < s.minGlobalSecurityScore
        THEN RouteReverted(s, "Security score below minimum threshold")
        ELSE IF (strategy.estimatedFees * 10000) \div strategy.totalAmount > s.maxFeePercentage
        THEN RouteReverted(s, "Estimated fees too high")
        ELSE IF strategy.strategyType = "split-route"
                /\ strategy.totalAmount < s.minAmountForSplit
        THEN RouteReverted(s, "Amount too small for split routing")
        ELSE IF strategy.strategyType = "split-route"
                /\ ~(Len(strategy.routes) >= 2 /\ Len(strategy.routes) <= 5)
        THEN RouteReverted(s, "Split routing requires 2-5 routes")
        ELSE IF ~approved \/ s.balanceOf[sender] < strategy.totalAmount
        THEN RouteReverted(s, "SafeERC20: transferFrom failed")
        ELSE IF strategy.strategyType \notin {"single-route", "split-route"}
        THEN RouteReverted(s, "Unknown strategy type")
        ELSE IF ~r.ok THEN RouteReverted(s, r.reason)
        ELSE IF ~r.success /\ r.st.balanceOf["aggregator"] < netAmount
        THEN RouteReverted(s, "SafeERC20: transfer failed")
        ELSE [ok |-> TRUE,
              st |-> IF r.success THEN r.st ELSE Transfer(r.st, "aggregator", sender, netAmount),
              reason |-> "",
              events |-> Append(r.events,
                                [name |-> "AggregatedRouteExecuted", user |-> sender,
                                 strategyType |-> strategy.strategyType,
                                 protocolCount |-> Len(strategy.routes),
                                 totalAmount |-> strategy.totalAmount,
                                 securityScore |-> strategy.securityScore,
                                 estimatedTime |-> strategy.estimatedTime,
                                 estimatedFees |-> strategy.estimatedFees,
                                 success |-> r.success]),
              calls |-> r.calls, success |-> r.success]

\* approved: the caller has given the contract an allowance of totalAmount or more
executeAggregatedRoute(s, sender, sourceToken, strategy, approved, outcomes, timestamp) ==
    IF ~(timestamp <= strategy.deadline) THEN RouteReverted(s, "Strategy expired")
    ELSE executeAggregatedRouteAnyTime(s, sender, sourceToken, strategy, approved, outcomes,
                                       timestamp)

\* the routes a caller may submit: to the Li.Fi diamond, to a bridge that is not trusted,
\* to the Across SpokePool with and without calldata
LiFiLeg(bridge, amount) ==
    [protocol |-> "LiFi", bridge |-> bridge, callData |-> "data", value |-> 0, amount |-> amount]
AcrossLeg(data) ==
    [protocol |-> "Across", bridge |-> "spokePool", callData |-> data, value |-> 0,
     amount |-> 200]
RouterRouteLists ==
    {<<>>, <<LiFiLeg("lifiDiamond", 699)>>, <<LiFiLeg("otherBridge", 699)>>,
     <<AcrossLeg("empty")>>,
     <<LiFiLeg("lifiDiamond", 699), AcrossLeg("data")>>,
     <<LiFiLeg("lifiDiamond", 300), AcrossLeg("data")>>,
     <<LiFiLeg("otherBridge", 699), AcrossLeg("data")>>,
     <<LiFiLeg("lifiDiamond", 699), AcrossLeg("empty")>>}

\* strategies that pass the security and fee checks
SoundStrategies ==
    [strategyType : {"single-route", "split-route"}, routes : RouterRouteLists,
     totalAmount : {500, 1000}, minOutput : {0},
     deadline : {RECOVERY_PERIOD, RECOVERY_PERIOD + DAY},
     securityScore : {80}, estimatedTime : {60}, estimatedFees : {0}]
PlainStrategies ==
    {s \in SoundStrategies :
        /\ s.totalAmount = 1000
        /\ s.routes \in {<<LiFiLeg("lifiDiamond", 699)>>,
                          <<LiFiLeg("lifiDiamond", 699), AcrossLeg("data")>>}}
\* the calls made: every sound strategy under every behaviour of the bridges, and
\* the plain ones with one thing wrong
RouterCalls ==
    [strategy : SoundStrategies, sourceToken : {"token"}, approved : {TRUE},
     outcomes : {<<"fills", "fills">>, <<"fills", "fails">>, <<"fails", "fills">>}]
    \cup [strategy : {[s EXCEPT !.securityScore = 69] : s \in PlainStrategies}
                     \cup {[s EXCEPT !.estimatedFees = 21] : s \in PlainStrategies}
                     \cup {[s EXCEPT !.strategyType = "other"] : s \in PlainStrategies}
                     \cup {[s EXCEPT !.totalAmount = 0] : s \in PlainStrategies}
                     \cup {[s EXCEPT !.totalAmount = 400] : s \in PlainStrategies},
          sourceToken : {"token"}, approved : {TRUE}, outcomes : {<<"fills", "fills">>}]
    \cup [strategy : PlainStrategies, sourceToken : {"zero"}, approved : {TRUE},
          outcomes : {<<"fills", "fills">>}]
    \cup [strategy : PlainStrategies, sourceToken : {"token"}, approved : {FALSE},
          outcomes : {<<"fills", "fills">>}]

\* the number of calls made so far
RouteCallsMade == IF routeCall = None THEN 0 ELSE routeCall[1].number

ExecuteAggregatedRoute ==
    \E call \in RouterCalls :
        LET r == executeAggregatedRoute(router, "user", call.sourceToken, call.strategy,
                                        call.approved, call.outcomes, now)
        IN  /\ RouteCallsMade < MaxRouteCalls
            /\ router' = r.st
            /\ routeCall' = Some([entry |-> "executeAggregatedRoute",
                                  strategy |-> call.strategy, sourceToken |-> call.sourceToken,
                                  timestamp |-> now, ok |-> r.ok, reason |-> r.reason,
                                  events |-> r.events, calls |-> r.calls,
                                  success |-> r.success, before |-> router,
                                  number |-> RouteCallsMade + 1])
            /\ UNCHANGED <<acctVars, lastCall, aggVars, factoryVars, acrossRoute, callData, tokenQuery,
                           tokenSent, strategyGiven, executionData>>

NextRouter == Tick \/ ExecuteAggregatedRoute
SpecRouter == InitAccount /\ [][NextRouter]_vars

\* C27: an executeAggregatedRoute at a block time later than the strategy's deadline
\* reverts with "Strategy expired": no balance or allowance of the source token has
\* changed (nothing collected, no fee charged), and no bridge was called.
C27_ExpiredStrategyReverts ==
    routeCall # None =>
        LET c == routeCall[1] IN
        /\ c.timestamp > c.strategy.deadline =>
              /\ ~c.ok /\ c.reason = "Strategy expired"
              /\ router = c.before
              /\ c.calls = <<>> /\ c.events = <<>>
        /\ c.reason = "Strategy expired" => c.timestamp > c.strategy.deadline

\* a strategy that executes at its deadline has been rejected one day later, the
\* caller's tokens still in place
C27_Witness ==
    /\ routeCall # None
    /\ routeCall[1].timestamp = RECOVERY_PERIOD + 2 * DAY
    /\ routeCall[1].strategy.deadline = RECOVERY_PERIOD + DAY
    /\ routeCall[1].strategy.strategyType = "single-route"
    /\ routeCall[1].strategy.totalAmount = 1000
    /\ ~routeCall[1].ok
    /\ router.balanceOf["user"] = InitialTokens

\* what a call moved: the tokens the contract collected from the caller, and the
\* tokens that left the contract (protocol fee, amounts pulled by bridges, refund)
Collected(call) == IF call.ok THEN call.strategy.totalAmount ELSE 0
Outflow(call, after) ==
    call.before.balanceOf["aggregator"] + Collected(call) - after.balanceOf["aggregator"]

ProtocolFee(call) == (call.strategy.totalAmount * call.before.protocolFeeBps) \div 10000

executeLiFiRoute(s, sender, sourceToken, amount, lifiCallData, approved, outcome) ==
    LET protocolFee == (amount * s.protocolFeeBps) \div 10000
        netAmount == amount - protocolFee
        collected == Transfer(s, sender, "aggregator", amount)
        charged == IF protocolFee > 0
                   THEN Transfer(collected, "aggregator", s.feeRecipient, protocolFee)
                   ELSE collected
        c == BridgeCall(charged, [bridge |-> s.lifiDiamond, value |-> 0], netAmount, outcome)
    IN  IF s.lifiDiamond = "zero" THEN RouteReverted(s, "LiFi not configured")
        ELSE IF sourceToken = "zero" THEN RouteReverted(s, "Invalid token")
        ELSE IF amount = 0 THEN RouteReverted(s, "Invalid amount")
        ELSE IF lifiCallData = "empty" THEN RouteReverted(s, "Empty callData")
        ELSE IF ~approved \/ s.balanceOf[sender] < amount
        THEN RouteReverted(s, "SafeERC20: transferFrom failed")
        ELSE [ok |-> TRUE,
              st |-> IF c.success THEN c.st ELSE Transfer(c.st, "aggregator", sender, netAmount),
              reason |-> "",
              events |-> << [name |-> "ProtocolRouteExecuted", user |-> sender,
                             protocol |-> "LiFi", amount |-> amount, success |-> c.success] >>,
              calls |-> << c.call >>, success |-> c.success]

\* the arguments that decide: the source chain, the two amounts, the recipient
executeAcrossV3Route(s, sender, sourceChainId, inputToken, inputAmount, outputAmount, recipient, approved, outcome) ==
    LET spokePool == IF sourceChainId \in DOMAIN s.acrossSpokePools
                     THEN s.acrossSpokePools[sourceChainId] ELSE "zero"
        protocolFee == (inputAmount * s.protocolFeeBps) \div 10000
        netInputAmount == inputAmount - protocolFee
        collected == Transfer(s, sender, "aggregator", inputAmount)
        charged == IF protocolFee > 0
                   THEN Transfer(collected, "aggregator", s.feeRecipient, protocolFee)
                   ELSE collected
        c == BridgeCall(charged, [bridge |-> spokePool, value |-> 0], netInputAmount, outcome)
    IN  IF spokePool = "zero" THEN RouteReverted(s, "Across not available on this chain")
        ELSE IF inputToken = "zero" THEN RouteReverted(s, "Invalid input token")
        ELSE IF inputAmount = 0 THEN RouteReverted(s, "Invalid input amount")
        ELSE IF outputAmount = 0 THEN RouteReverted(s, "Invalid output amount")
        ELSE IF recipient = "zero" THEN RouteReverted(s, "Invalid recipient")
        ELSE IF ~approved \/ s.balanceOf[sender] < inputAmount
        THEN RouteReverted(s, "SafeERC20: transferFrom failed")
        ELSE [ok |-> TRUE,
              st |-> IF c.success THEN c.st
                     ELSE Transfer(c.st, "aggregator", sender, netInputAmount),
              reason |-> "",
              events |-> << [name |-> "ProtocolRouteExecuted", user |-> sender,
                             protocol |-> "Across", amount |-> inputAmount,
                             success |-> c.success] >>,
              calls |-> << c.call >>, success |-> c.success]

\* onlyOwner functions: the storage after the call, unchanged when it reverts
setLiFiDiamond(s, sender, _lifiDiamond) ==
    IF sender # "owner" \/ _lifiDiamond = "zero" THEN s
    ELSE [s EXCEPT !.lifiDiamond = _lifiDiamond,
                   !.trustedBridges = @ \cup {_lifiDiamond}]

setAcrossSpokePool(s, sender, chainId, spokePool) ==
    IF sender # "owner" \/ spokePool = "zero" \/ ~(chainId > 0) THEN s
    ELSE [s EXCEPT !.acrossSpokePools[chainId] = spokePool,
                   !.trustedBridges = @ \cup {spokePool}]

setTrustedBridge(s, sender, bridge, trusted) ==
    IF sender # "owner" \/ bridge = "zero" THEN s
    ELSE [s EXCEPT !.trustedBridges = IF trusted THEN @ \cup {bridge} ELSE @ \ {bridge}]

setProtocolFee(s, sender, feeBps) ==
    IF sender # "owner" \/ ~(feeBps <= 100) THEN s
    ELSE [s EXCEPT !.protocolFeeBps = feeBps]

\* a setter that takes any score
setMinGlobalSecurityScoreAnyScore(s, sender, score) ==
    IF sender # "owner" THEN s
    ELSE [s EXCEPT !.minGlobalSecurityScore = score]

setMinGlobalSecurityScore(s, sender, score) ==
    IF sender # "owner" \/ ~(score <= 100) \/ ~(score >= 50) THEN s
    ELSE [s EXCEPT !.minGlobalSecurityScore = score]

setMaxFeePercentage(s, sender, percentage) ==
    IF sender # "owner" \/ ~(percentage <= 500) THEN s
    ELSE [s EXCEPT !.maxFeePercentage = percentage]

setMinAmountForSplit(s, sender, amount) ==
    IF sender # "owner" \/ ~(amount > 0) THEN s
    ELSE [s EXCEPT !.minAmountForSplit = amount]

\* the senders of configuration calls, and the values they pass
ConfigSenders == {"owner", "user"}
BridgeAddresses == {"zero", "lifiDiamond", "spokePool", "otherBridge"}

\* the contract is configured before the calls explored are made: a call reads the
\* configuration of its moment only
Configurable == RouteCallsMade = 0
ConfigUnchanged ==
    UNCHANGED <<acctVars, lastCall, aggVars, factoryVars, acrossRoute, callData, tokenQuery,
                tokenSent, strategyGiven, executionData, routeCall>>

SetLiFiDiamond ==
    \E sender \in ConfigSenders, a \in {"zero", "lifiDiamond", "otherBridge"} :
        /\ Configurable
        /\ router' = setLiFiDiamond(router, sender, a)
        /\ ConfigUnchanged
SetAcrossSpokePool ==
    \E sender \in ConfigSenders, chainId \in {0, 1}, a \in {"zero", "spokePool", "otherBridge"} :
        /\ Configurable
        /\ router' = setAcrossSpokePool(router, sender, chainId, a)
        /\ ConfigUnchanged
SetTrustedBridge ==
    \E sender \in ConfigSenders, a \in BridgeAddresses, trusted \in BOOLEAN :
        /\ Configurable
        /\ router' = setTrustedBridge(router, sender, a, trusted)
        /\ ConfigUnchanged
SetProtocolFee ==
    \E sender \in ConfigSenders, feeBps \in {100, 101} :
        /\ Configurable
        /\ router' = setProtocolFee(router, sender, feeBps)
        /\ ConfigUnchanged
SetMinGlobalSecurityScore ==
    \E sender \in ConfigSenders, score \in {49, 100, 101} :
        /\ Configurable
        /\ router' = setMinGlobalSecurityScore(router, sender, score)
        /\ ConfigUnchanged
SetMaxFeePercentage ==
    \E sender \in ConfigSenders, percentage \in {500, 501} :
        /\ Configurable
        /\ router' = setMaxFeePercentage(router, sender, percentage)
        /\ ConfigUnchanged
SetMinAmountForSplit ==
    \E sender \in ConfigSenders, amount \in {0, 1000} :
        /\ Configurable
        /\ router' = setMinAmountForSplit(router, sender, amount)
        /\ ConfigUnchanged

\* the route a direct call stands for
DirectStrategy(kind, protocol, bridge, data, amount) ==
    [strategyType |-> kind,
     routes |-> << [protocol |-> protocol, bridge |-> bridge, callData |-> data,
                    value |-> 0, amount |-> amount] >>,
     totalAmount |-> amount, minOutput |-> 0, deadline |-> now,
     securityScore |-> 0, estimatedTime |-> 0, estimatedFees |-> 0]

RecordRouteCall(entry, strategy, sourceToken, r) ==
    /\ RouteCallsMade < MaxRouteCalls
    /\ router' = r.st
    /\ routeCall' = Some([entry |-> entry, strategy |-> strategy, sourceToken |-> sourceToken,
                          timestamp |-> now, ok |-> r.ok, reason |-> r.reason,
                          events |-> r.events, calls |-> r.calls,
                          success |-> r.success, before |-> router,
                          number |-> RouteCallsMade + 1])
    /\ UNCHANGED <<acctVars, lastCall, aggVars, factoryVars, acrossRoute, callData, tokenQuery,
                   tokenSent, strategyGiven, executionData>>

ExecuteLiFiRoute ==
    \E sourceToken \in {"token", "zero"}, amount \in {0, 1000}, data \in {"data", "empty"},
       outcome \in {"fills", "fails"} :
        RecordRouteCall("executeLiFiRoute",
                        DirectStrategy("lifi-direct", "LiFi", router.lifiDiamond, data, amount),
                        sourceToken,
                        executeLiFiRoute(router, "user", sourceToken, amount, data, TRUE,
                                         outcome))

ExecuteAcrossV3Route ==
    \E sourceChainId \in SpokeChains, inputAmount \in {0, 500}, recipient \in {"user", "zero"},
       outcome \in {"fills", "fails"} :
        RecordRouteCall("executeAcrossV3Route",
                        DirectStrategy("across-direct", "Across",
                                       router.acrossSpokePools[sourceChainId], "data",
                                       inputAmount),
                        "token",
                        executeAcrossV3Route(router, "user", sourceChainId, "token",
                                             inputAmount, inputAmount, recipient, TRUE,
                                             outcome))

\* strategies around the configured limits: scores on both sides of 70, fees of 0 and 3%,
\* amounts on both sides of the default split minimum, one to six routes
ConfigRouteLists ==
    {<<LiFiLeg("lifiDiamond", 300)>>,
     <<LiFiLeg("lifiDiamond", 300), AcrossLeg("data")>>,
     <<LiFiLeg("otherBridge", 300), AcrossLeg("data")>>,
     [i \in 1..6 |-> LiFiLeg("lifiDiamond", 50)]}
ConfigStrategies ==
    [strategyType : {"single-route", "split-route"}, routes : ConfigRouteLists,
     totalAmount : {400, 1000}, minOutput : {0}, deadline : {RECOVERY_PERIOD},
     securityScore : {60, 80}, estimatedTime : {60}, estimatedFees : {0, 30}]

ExecuteConfiguredRoute ==
    \E strategy \in ConfigStrategies, outcomes \in {[i \in 1..6 |-> "fills"]} :
        RecordRouteCall("executeAggregatedRoute", strategy, "token",
                        executeAggregatedRoute(router, "user", "token", strategy, TRUE,
                                               outcomes, now))

NextRouterConfig ==
    \/ SetLiFiDiamond \/ SetAcrossSpokePool \/ SetTrustedBridge
    \/ SetProtocolFee \/ SetMinGlobalSecurityScore \/ SetMaxFeePercentage
    \/ SetMinAmountForSplit
    \/ ExecuteLiFiRoute \/ ExecuteAcrossV3Route \/ ExecuteConfiguredRoute
SpecRouterConfig == InitAccount /\ [][NextRouterConfig]_vars

\* C35: in every entrypoint, and whatever the owner has configured, every address that
\* was given a token approval and called was a trusted bridge when the call was made.
C35_OnlyTrustedBridgesCalled ==
    routeCall # None =>
        \A i \in 1..Len(routeCall[1].calls) :
            routeCall[1].calls[i].bridge \in routeCall[1].before.trustedBridges

\* the checks of executeAggregatedRoute that precede the collection of the tokens
ChecksBeforeCollection ==
    {"No routes provided", "Invalid amount", "Strategy expired", "Invalid token",
     "Security score below minimum threshold", "Estimated fees too high",
     "Amount too small for split routing", "Split routing requires 2-5 routes"}

\* what the strategy of a call has outside the limits configured when it was made
OutsideLimits(c) ==
    \/ c.strategy.securityScore < c.before.minGlobalSecurityScore
    \/ /\ c.strategy.totalAmount > 0
       /\ (c.strategy.estimatedFees * 10000) \div c.strategy.totalAmount
             > c.before.maxFeePercentage
    \/ /\ c.strategy.strategyType = "split-route"
       /\ \/ c.strategy.totalAmount < c.before.minAmountForSplit
          \/ Len(c.strategy.routes) \notin 2..5

\* C37: an executeAggregatedRoute whose strategy has a security score below
\* minGlobalSecurityScore, estimated fees above maxFeePercentage, or, being a split, an
\* amount below minAmountForSplit or a number of routes outside 2..5, reverts at a check
\* that precedes the collection, nothing moved and no bridge called; and whatever the
\* owner sets, minGlobalSecurityScore is within 50..100, maxFeePercentage at most 500
\* and protocolFeeBps at most 100.
C37_LimitsEnforcedBeforeCollection ==
    /\ router.minGlobalSecurityScore \in 50..100
    /\ router.maxFeePercentage <= 500
    /\ router.protocolFeeBps <= 100
    /\ (routeCall # None /\ routeCall[1].entry = "executeAggregatedRoute"
           /\ OutsideLimits(routeCall[1]))
        => /\ ~routeCall[1].ok
           /\ routeCall[1].reason \in ChecksBeforeCollection
           /\ router = routeCall[1].before
           /\ routeCall[1].calls = <<>>

\* the owner has raised the minimum score to 100 and the fee limit to 500, and a
\* strategy of score 80 has then been refused for its score, the caller's tokens in place
C37_Witness ==
    /\ routeCall # None
    /\ routeCall[1].entry = "executeAggregatedRoute"
    /\ routeCall[1].before.minGlobalSecurityScore = 100
    /\ routeCall[1].before.maxFeePercentage = 500
    /\ routeCall[1].strategy.securityScore = 80
    /\ routeCall[1].reason = "Security score below minimum threshold"
    /\ router.balanceOf["user"] = InitialTokens

(***************************************************************************)
(* MultiProtocolAggregator.  JavaScript numbers are kept in fixed point:   *)
(* a fee string such as "0.002" is the integer 2 (thousandths), the amount *)
(* string "1.0" is 10 (tenths); parseFloat yields numbers with one more    *)
(* decimal digit (fees in 1/10000, amounts in 1/100) so that the products  *)
(* with 0.7 and 0.3 are exact.                                             *)
(***************************************************************************)
MaxGasUSD == 2
MaxFeeUSD == 1
MaxRelayFee == 3

Truthy(x) == x # None /\ x[1] # 0
TruthyStr(x) == x # None /\ x[1] # ""
\* x || d
OrElse(x, d) == IF Truthy(x) THEN x[1] ELSE d
Max(a, b) == IF a >= b THEN a ELSE b
Abs(a) == IF a >= 0 THEN a ELSE 0 - a
parseFloat(x) == 10 * x

RECURSIVE Sum(_)
Sum(list) == IF list = <<>> THEN 0 ELSE Head(list) + Sum(Tail(list))
RECURSIVE Flatten(_)
Flatten(lists) == IF lists = <<>> THEN <<>> ELSE Head(lists) \o Flatten(Tail(lists))

\* Object.entries(this.protocols), in declaration order
ProtocolKeys == <<"lifi", "across">>
protocols ==
    [lifi   |-> [name |-> "Li.Fi", securityScore |-> 92,
                 supportedChains |-> {1, 10, 42161, 137, 8453, 56, 43114}],
     across |-> [name |-> "Across Protocol", securityScore |-> 89,
                 supportedChains |-> {1, 10, 42161, 137, 8453}]]

isProtocolEnabled(protocolKey) == protocolKey \in {"lifi", "across"}

\* what a provider's HTTP API can answer: a body, an HTTP/network error, or
\* nothing before the axios timeout
Failure(kind) == [kind |-> kind, data |-> None]
Body(data) == [kind |-> "data", data |-> Some(data)]

LiFiEstimates ==
    [executionDuration : {None, Some(20), Some(90)},
     gasCosts : {None, Some(<< MaxGasUSD >>)},
     feeCosts : {None, Some(<< MaxFeeUSD >>)},
     fromAmountUSD : {None, Some(1000)},
     toAmountUSD : {Some(995)}]
LiFiBodies ==
    [id : {Some("lifi-quote")}, tool : {None, Some("Relay"), Some("stargate")},
     estimate : {Some(e) : e \in LiFiEstimates}, includedSteps : {None, Some(2)}]
    \cup {[id |-> None, tool |-> None, estimate |-> None, includedSteps |-> None],
          [id |-> Some("lifi-quote"), tool |-> Some("across"), estimate |-> None,
           includedSteps |-> None]}
LiFiResponses == {Failure("error"), Failure("timeout")} \cup {Body(d) : d \in LiFiBodies}

AcrossBodies ==
    [id : {None}, totalRelayFee : {Some(0), Some(MaxRelayFee)},
     estimatedFillTimeSec : {None, Some(20), Some(90)}]
    \cup {[id |-> None, totalRelayFee |-> None, estimatedFillTimeSec |-> Some(20)]}
AcrossResponses == {Failure("error"), Failure("timeout")} \cup {Body(d) : d \in AcrossBodies}

\* the value an async function settles with: an array of routes, or a rejection
Resolved(routes) == [rejected |-> FALSE, routes |-> routes]
Rejected == [rejected |-> TRUE, routes |-> <<>>]

calculateTotalFee(estimate) ==
    LET gasFees == IF estimate.gasCosts = None THEN 0 ELSE Sum(estimate.gasCosts[1])
        bridgeFees == IF estimate.feeCosts = None THEN 0 ELSE Sum(estimate.feeCosts[1])
    IN  gasFees + bridgeFees

\* axios rejects on an error or a timeout; reading estimate.executionDuration of a
\* body without estimate throws
getLiFiRoutes(response) ==
    IF response.kind # "data" THEN Rejected
    ELSE LET data == response.data[1] IN
         IF ~TruthyStr(data.id) THEN Resolved(<<>>)
         ELSE IF data.estimate = None THEN Rejected
         ELSE LET estimate == data.estimate[1] IN
              Resolved(<< [id |-> data.id[1],
                           tool |-> data.tool,
                           executionDuration |-> estimate.executionDuration,
                           totalFee |-> Some(calculateTotalFee(estimate)),
                           fromAmountUSD |-> estimate.fromAmountUSD,
                           toAmountUSD |-> estimate.toAmountUSD,
                           includedSteps |-> data.includedSteps] >>)

\* every failure is caught inside and becomes an empty array
getAcrossRoutes(response) ==
    IF response.kind # "data" THEN Resolved(<<>>)
    ELSE LET data == response.data[1] IN
         IF data.totalRelayFee = None THEN Resolved(<<>>)
         ELSE Resolved(<< [id |-> IF TruthyStr(data.id) THEN data.id[1] ELSE "across_now",
                           tool |-> Some("across"),
                           executionDuration |-> Some(OrElse(data.estimatedFillTimeSec, 2)),
                           totalFee |-> Some(data.totalRelayFee[1]),
                           fromAmountUSD |-> None,
                           toAmountUSD |-> None,
                           includedSteps |-> Some(1)] >>)

getProtocolRoutes(protocolKey, response) ==
    CASE protocolKey = "lifi" -> getLiFiRoutes(response)
      [] protocolKey = "across" -> getAcrossRoutes(response)
      [] OTHER -> Resolved(<<>>)

(***************************************************************************)
(* Security analysis of the collected routes.                              *)
(***************************************************************************)
toLowerCase(name) ==
    CASE name = "Relay" -> "relay"
      [] name = "Across" -> "across"
      [] name = "LiFi" -> "lifi"
      [] OTHER -> name

\* securityDatabase[protocolName.toLowerCase()].score, undefined for an unknown key
securityDatabase == [relay |-> 92, across |-> 89, lifi |-> 92]
getProtocolSecurityScore(protocolName) ==
    LET key == toLowerCase(protocolName) IN
    IF key \in DOMAIN securityDatabase THEN Some(securityDatabase[key]) ELSE None

\* the USD amounts of an estimate are whole dollars
assessLiquiditySecurity(route) ==
    LET fromAmountUSD == OrElse(route.fromAmountUSD, 0)
        toAmountUSD == OrElse(route.toAmountUSD, 0)
        diff == Abs(fromAmountUSD - toAmountUSD)
    IN  IF fromAmountUSD = 0 THEN None
        ELSE IF 1000 * diff < fromAmountUSD THEN Some(95)
        ELSE IF 1000 * diff < 5 * fromAmountUSD THEN Some(90)
        ELSE IF 100 * diff < fromAmountUSD THEN Some(85)
        ELSE IF 100 * diff < 3 * fromAmountUSD THEN Some(75)
        ELSE Some(60)

assessTimeSecurity(route) ==
    LET time == route.executionDuration IN
    IF ~Truthy(time) THEN None
    ELSE IF time[1] <= 5 THEN Some(98)
    ELSE IF time[1] <= 30 THEN Some(92)
    ELSE IF time[1] <= 120 THEN Some(85)
    ELSE IF time[1] <= 600 THEN Some(75)
    ELSE Some(60)

\* feePercentage = fee / fromAmountUSD * 100, the fee in thousandths
assessFeeReasonableness(route) ==
    LET fee == OrElse(route.totalFee, 0)
        fromAmountUSD == OrElse(route.fromAmountUSD, 0)
    IN  IF fee = 0 THEN None
        ELSE IF fromAmountUSD = 0 THEN None
        ELSE IF fee < fromAmountUSD THEN Some(95)
        ELSE IF fee < 5 * fromAmountUSD THEN Some(90)
        ELSE IF fee < 10 * fromAmountUSD THEN Some(85)
        ELSE IF fee < 20 * fromAmountUSD THEN Some(75)
        ELSE Some(60)

assessRouteComplexity(route) ==
    LET steps == route.includedSteps IN
    IF ~Truthy(steps) THEN None
    ELSE IF steps[1] <= 1 THEN Some(95)
    ELSE IF steps[1] <= 2 THEN Some(90)
    ELSE IF steps[1] <= 3 THEN Some(80)
    ELSE IF steps[1] <= 5 THEN Some(70)
    ELSE Some(60)

identifyRealRiskFactors(route, analysis) ==
    (IF analysis.protocolSecurity # 0 /\ analysis.protocolSecurity < 80
        THEN << "protocol security score is low" >> ELSE <<>>)
    \o (IF analysis.liquiditySecurity # 0 /\ analysis.liquiditySecurity < 80
        THEN << "liquidity risk: high slippage" >> ELSE <<>>)
    \o (IF analysis.timeSecurity # 0 /\ analysis.timeSecurity < 80
        THEN << "time risk: long execution" >> ELSE <<>>)
    \o (IF analysis.feeSecurity # 0 /\ analysis.feeSecurity < 80
        THEN << "fee above market level" >> ELSE <<>>)
    \o (IF analysis.routeComplexity # 0 /\ analysis.routeComplexity < 80
        THEN << "complex route" >> ELSE <<>>)

\* Math.round of the weighted sum, the weights in hundredths
WeightedSecurity(a) ==
    (30 * a.protocolSecurity + 25 * a.liquiditySecurity + 20 * a.timeSecurity
     + 15 * a.feeSecurity + 10 * a.routeComplexity + 50) \div 100

\* the key the reputation table is asked for
SecurityKey(route) == IF TruthyStr(route.tool) THEN route.tool[1] ELSE route.protocol

\* the analysis that gives an unknown protocol the neutral default
analyzeRouteWithDefault(route) ==
    LET securityAnalysis ==
            [protocolSecurity |-> OrElse(getProtocolSecurityScore(SecurityKey(route)), 75),
             liquiditySecurity |-> OrElse(assessLiquiditySecurity(route), 75),
             timeSecurity |-> OrElse(assessTimeSecurity(route), 75),
             feeSecurity |-> OrElse(assessFeeReasonableness(route), 75),
             routeComplexity |-> OrElse(assessRouteComplexity(route), 75)]
    IN  route @@ [securityAnalysis |-> securityAnalysis,
                  overallSecurity |-> WeightedSecurity(securityAnalysis),
                  riskFactors |-> identifyRealRiskFactors(route, securityAnalysis)]

\* the analysis that takes the plain mean of the five sub-scores
analyzeRouteEqualWeights(route) ==
    LET protocolSecurity == getProtocolSecurityScore(SecurityKey(route)) IN
    IF ~Truthy(protocolSecurity)
    THEN route @@ [securityAnalysis |-> [protocolSecurity |-> 0, liquiditySecurity |-> 0,
                                         timeSecurity |-> 0, feeSecurity |-> 0,
                                         routeComplexity |-> 0],
                   overallSecurity |-> 0,
                   riskFactors |-> << "protocol security data unavailable" >>]
    ELSE LET a == [protocolSecurity |-> protocolSecurity[1],
                   liquiditySecurity |-> OrElse(assessLiquiditySecurity(route), 75),
                   timeSecurity |-> OrElse(assessTimeSecurity(route), 75),
                   feeSecurity |-> OrElse(assessFeeReasonableness(route), 75),
                   routeComplexity |-> OrElse(assessRouteComplexity(route), 75)]
         IN  route @@ [securityAnalysis |-> a,
                       overallSecurity |->
                           (2 * (a.protocolSecurity + a.liquiditySecurity + a.timeSecurity
                                 + a.feeSecurity + a.routeComplexity) + 5) \div 10,
                       riskFactors |-> identifyRealRiskFactors(route, a)]

\* the body of the map callback of analyzeBasicRoutes
analyzeRoute(route) ==
    LET protocolSecurity == getProtocolSecurityScore(SecurityKey(route)) IN
    IF ~Truthy(protocolSecurity)
    THEN route @@ [securityAnalysis |-> [protocolSecurity |-> 0, liquiditySecurity |-> 0,
                                         timeSecurity |-> 0, feeSecurity |-> 0,
                                         routeComplexity |-> 0],
                   overallSecurity |-> 0,
                   riskFactors |-> << "protocol security data unavailable" >>]
    ELSE LET securityAnalysis ==
                 [protocolSecurity |-> protocolSecurity[1],
                  liquiditySecurity |-> OrElse(assessLiquiditySecurity(route), 75),
                  timeSecurity |-> OrElse(assessTimeSecurity(route), 75),
                  feeSecurity |-> OrElse(assessFeeReasonableness(route), 75),
                  routeComplexity |-> OrElse(assessRouteComplexity(route), 75)]
         IN  route @@ [securityAnalysis |-> securityAnalysis,
                       overallSecurity |-> WeightedSecurity(securityAnalysis),
                       riskFactors |-> identifyRealRiskFactors(route, securityAnalysis)]

\* an analysis that keeps one list of risk factors for all the routes of a call
analyzeBasicRoutesSharedFactors(routes) ==
    [i \in 1..Len(routes) |->
        [analyzeRoute(routes[i]) EXCEPT
            !.riskFactors = IF i = 1 THEN @ ELSE analyzeRoute(routes[i - 1]).riskFactors \o @]]

analyzeBasicRoutes(routes) == [i \in 1..Len(routes) |-> analyzeRoute(routes[i])]

(***************************************************************************)
(* Strategy generation.                                                    *)
(***************************************************************************)
RECURSIVE GCD(_, _)
GCD(a, b) == IF b = 0 THEN a ELSE GCD(b, a % b)
\* a score n/d in lowest terms, or +Infinity
Ratio(n, d) == [inf |-> FALSE, num |-> n \div GCD(n, d), den |-> d \div GCD(n, d)]
Infinity == [inf |-> TRUE, num |-> 0, den |-> 1]
\* a > b; Infinity - Infinity is NaN, which orders nothing
Greater(a, b) ==
    IF a.inf THEN ~b.inf
    ELSE IF b.inf THEN FALSE
    ELSE a.num * b.den > b.num * a.den

\* Array.prototype.sort with the comparator (a, b) => score(b) - score(a), as a
\* stable insertion sort of the indices by their scores
RECURSIVE InsertByScore(_, _, _)
InsertByScore(sorted, i, scores) ==
    IF sorted = <<>> THEN << i >>
    ELSE IF Greater(scores[i], scores[sorted[Len(sorted)]])
         THEN Append(InsertByScore(SubSeq(sorted, 1, Len(sorted) - 1), i, scores),
                     sorted[Len(sorted)])
         ELSE Append(sorted, i)
RECURSIVE SortedIndices(_, _)
SortedIndices(n, scores) ==
    IF n = 0 THEN <<>> ELSE InsertByScore(SortedIndices(n - 1, scores), n, scores)
\* (a one-element set binds a value that is used many times, so that it is computed
\* once: here, in BestSingleRoute, generateMultiProtocolSplits and AfterPromiseAll)
SortByScore(list, scores) ==
    LET Sorted(l, order) == [k \in 1..Len(l) |-> l[order[k]]] IN
    CHOOSE sorted \in {Sorted(l, SortedIndices(Len(l), s)) : l \in {list}, s \in {scores}} : TRUE

\* (1000 / time) + (100 / fee) in units of 1000, the fee in thousandths; 0 for a
\* route without fee data
RouteScore(route) ==
    LET time == OrElse(route.executionDuration, 300) IN
    IF route.totalFee = None THEN Ratio(0, 1)
    ELSE LET fee == route.totalFee[1] IN
         IF fee = 0 THEN Infinity
         ELSE Ratio(fee + 100 * time, time * fee)

\* (1000 / max(estimatedTime, 60)) + (100 / max(totalFees, 1)) in units of 1000,
\* the fees in 1/10000
StrategyScore(strategy) ==
    LET time == Max(strategy.estimatedTime, 60)
        fees == Max(strategy.totalFees, 10000)
    IN  Ratio(fees + 1000 * time, time * fees)

\* calculateStrategyScore, which no caller uses:
\* (securityScore || 80) * 0.4 + (1000 / max(estimatedTime, 60)) * 0.3
\*                             + (100 / max(totalFees, 1)) * 0.3, the fees in 1/10000
calculateStrategyScore(strategy) ==
    LET security == IF strategy.securityScore # 0 THEN strategy.securityScore ELSE 80
        time == Max(strategy.estimatedTime, 60)
        fees == Max(strategy.totalFees, 10000)
    IN  Ratio(4 * security * time * (fees \div 10000) + 3000 * (fees \div 10000) + 300 * time,
              10 * time * (fees \div 10000))

\* Object.keys(routesByProtocol): the protocols in order of first appearance
RECURSIVE KeysOf(_)
KeysOf(routes) ==
    IF routes = <<>> THEN <<>>
    ELSE LET before == KeysOf(SubSeq(routes, 1, Len(routes) - 1))
             key == routes[Len(routes)].protocol
         IN  IF \E i \in 1..Len(before) : before[i] = key THEN before ELSE Append(before, key)
RoutesOf(routes, protocolKey) == SelectSeq(routes, LAMBDA r : r.protocol = protocolKey)

BestSingleRoute(routes, amount) ==
    LET Strategy(bestRoute) ==
    LET bestRouteFee == IF bestRoute.totalFee # None THEN parseFloat(bestRoute.totalFee[1]) ELSE 0
    IN  [strategy |-> "best-single-route",
         routes |-> << bestRoute >>,
         totalAmount |-> amount,
         splits |-> << [protocol |-> bestRoute.protocol, route |-> bestRoute,
                        amount |-> amount, percentage |-> 100] >>,
         estimatedTime |-> OrElse(bestRoute.executionDuration, 0),
         totalFees |-> bestRouteFee,
         securityScore |-> IF bestRoute.overallSecurity # 0 THEN bestRoute.overallSecurity ELSE 75]
    IN  CHOOSE strategy \in
            {Strategy(best) :
                best \in {SortByScore(routes, [i \in 1..Len(routes) |-> RouteScore(routes[i])])[1]}} :
            TRUE

\* a split in two equal halves that adds the two durations
MultiProtocolSplitEven(route1, route2, amount) ==
    LET route1Fee == IF route1.totalFee # None THEN parseFloat(route1.totalFee[1]) ELSE 0
        route2Fee == IF route2.totalFee # None THEN parseFloat(route2.totalFee[1]) ELSE 0
    IN  [strategy |-> "multi-protocol-split",
         routes |-> << route1, route2 >>,
         totalAmount |-> amount,
         splits |-> << [protocol |-> route1.protocol, route |-> route1,
                        amount |-> (amount * 5) \div 10, percentage |-> 50],
                       [protocol |-> route2.protocol, route |-> route2,
                        amount |-> (amount * 5) \div 10, percentage |-> 50] >>,
         estimatedTime |-> OrElse(route1.executionDuration, 0) + OrElse(route2.executionDuration, 0),
         totalFees |-> (route1Fee * 5) \div 10 + (route2Fee * 5) \div 10,
         securityScore |-> 75]

\* the 70/30 strategy over the first route of each of the first two protocols
MultiProtocolSplit(route1, route2, amount) ==
    LET route1Security == IF route1.overallSecurity # 0 THEN route1.overallSecurity ELSE 75
        route2Security == IF route2.overallSecurity # 0 THEN route2.overallSecurity ELSE 75
        combinedSecurity == (7 * route1Security + 3 * route2Security + 5) \div 10
        route1Fee == IF route1.totalFee # None THEN parseFloat(route1.totalFee[1]) ELSE 0
        route2Fee == IF route2.totalFee # None THEN parseFloat(route2.totalFee[1]) ELSE 0
        combinedFees == (route1Fee * 7) \div 10 + (route2Fee * 3) \div 10
    IN  [strategy |-> "multi-protocol-split",
         routes |-> << route1, route2 >>,
         totalAmount |-> amount,
         splits |-> << [protocol |-> route1.protocol, route |-> route1,
                        amount |-> (amount * 7) \div 10, percentage |-> 70],
                       [protocol |-> route2.protocol, route |-> route2,
                        amount |-> (amount * 3) \div 10, percentage |-> 30] >>,
         estimatedTime |-> Max(OrElse(route1.executionDuration, 0),
                               OrElse(route2.executionDuration, 0)),
         totalFees |-> combinedFees,
         securityScore |-> combinedSecurity]

\* the synthesizer that also splits an amount of exactly the threshold
generateMultiProtocolSplitsFromThreshold(routes, p) ==
    LET amount == parseFloat(p.amount)
        availableProtocols == KeysOf(routes)
        single == IF Len(routes) > 0 THEN << BestSingleRoute(routes, amount) >> ELSE <<>>
        split == IF Len(availableProtocols) > 1 /\ amount >= 50
                 THEN << MultiProtocolSplit(RoutesOf(routes, availableProtocols[1])[1],
                                            RoutesOf(routes, availableProtocols[2])[1],
                                            amount) >>
                 ELSE <<>>
    IN  CHOOSE sorted \in
            {SortByScore(strategies, [i \in 1..Len(strategies) |-> StrategyScore(strategies[i])]) :
                strategies \in {single \o split}} : TRUE

generateMultiProtocolSplits(routes, p) ==
    LET amount == parseFloat(p.amount)
        availableProtocols == KeysOf(routes)
        single == IF Len(routes) > 0 THEN << BestSingleRoute(routes, amount) >> ELSE <<>>
        split == IF Len(availableProtocols) > 1 /\ amount > 50
                 THEN << MultiProtocolSplit(RoutesOf(routes, availableProtocols[1])[1],
                                            RoutesOf(routes, availableProtocols[2])[1],
                                            amount) >>
                 ELSE <<>>
    IN  CHOOSE sorted \in
            {SortByScore(strategies, [i \in 1..Len(strategies) |-> StrategyScore(strategies[i])]) :
                strategies \in {single \o split}} : TRUE

(***************************************************************************)
(* getAggregatedRoutes as a process: the call starts one query per         *)
(* protocol, the providers answer in any order, and the function goes on   *)
(* once Promise.all has settled.                                           *)
(***************************************************************************)
Chains == {1, 56, 999}
MaxAmount == 10
Amounts == {5, MaxAmount}
Params == [fromChain : Chains, toChain : {10, 56}, amount : Amounts]

Queried(protocolKey, p) ==
    /\ isProtocolEnabled(protocolKey)
    /\ p.fromChain \in protocols[protocolKey].supportedChains
    /\ p.toChain \in protocols[protocolKey].supportedChains

\* a query whose failure escapes the map callback
QueryProtocolUncaught(protocolKey, response) ==
    LET r == getProtocolRoutes(protocolKey, response) IN
    IF r.rejected THEN Rejected
    ELSE Resolved([i \in 1..Len(r.routes) |->
                     [protocol |-> protocolKey, protocolName |-> protocols[protocolKey].name,
                      actualTool |-> r.routes[i].tool] @@ r.routes[i]])

\* the try/catch of the map callback around one protocol's query
QueryProtocol(protocolKey, response) ==
    LET r == getProtocolRoutes(protocolKey, response) IN
    IF r.rejected THEN Resolved(<<>>)
    ELSE Resolved([i \in 1..Len(r.routes) |->
                     [protocol |-> protocolKey, protocolName |-> protocols[protocolKey].name,
                      actualTool |-> r.routes[i].tool] @@ r.routes[i]])

\* a merge that takes the results in the order the queries settled
AllRoutesAsSettled(results) ==
    Flatten([i \in 1..Len(settled) |-> results[settled[i]].routes])

\* Promise.all keeps the results in the order of the promises, forEach pushes them
AllRoutes(results) == Flatten([i \in 1..Len(ProtocolKeys) |-> results[ProtocolKeys[i]].routes])

GetAggregatedRoutes(p) ==
    /\ aggPc = "idle"
    /\ aggPc' = "awaiting"
    /\ params' = Some(p)
    /\ pending' = {ProtocolKeys[i] : i \in {j \in 1..Len(ProtocolKeys) : Queried(ProtocolKeys[j], p)}}
    /\ routeResults' = [k \in {ProtocolKeys[i] : i \in {j \in 1..Len(ProtocolKeys) :
                                                         ~Queried(ProtocolKeys[j], p)}}
                            |-> Resolved(<<>>)]
    /\ UNCHANGED <<responses, analyzedRoutes, splitStrategies, aggError, settled>>
    /\ UNCHANGED <<acctVars, lastCall, bridgeVars>>

ProviderResponds(protocolKey, response) ==
    /\ aggPc = "awaiting"
    /\ protocolKey \in pending
    /\ pending' = pending \ {protocolKey}
    /\ responses' = (protocolKey :> response) @@ responses
    /\ routeResults' = (protocolKey :> QueryProtocol(protocolKey, response)) @@ routeResults
    /\ settled' = Append(settled, protocolKey)
    /\ UNCHANGED <<aggPc, params, analyzedRoutes, splitStrategies, aggError>>
    /\ UNCHANGED <<acctVars, lastCall, bridgeVars>>

LiFiResponds == \E response \in LiFiResponses : ProviderResponds("lifi", response)
AcrossResponds == \E response \in AcrossResponses : ProviderResponds("across", response)

\* a continuation that runs only once every query has answered with a body
AfterPromiseAllOfAnswers ==
    /\ aggPc = "awaiting"
    /\ \/ pending = {}
       \/ \E k \in DOMAIN routeResults : routeResults[k].rejected
    /\ \A k \in DOMAIN responses : responses[k].kind = "data"
    /\ IF \E k \in DOMAIN routeResults : routeResults[k].rejected
       THEN /\ aggPc' = "thrown"
            /\ aggError' = Some("provider query failed")
            /\ UNCHANGED <<analyzedRoutes, splitStrategies>>
       ELSE LET allRoutes == AllRoutes(routeResults) IN
            IF Len(allRoutes) = 0
            THEN /\ aggPc' = "thrown"
                 /\ aggError' = Some("no protocol could provide a route")
                 /\ UNCHANGED <<analyzedRoutes, splitStrategies>>
            ELSE \E analyzed \in {analyzeBasicRoutes(allRoutes)} :
                 /\ aggPc' = "returned"
                 /\ analyzedRoutes' = analyzed
                 /\ splitStrategies' = generateMultiProtocolSplits(analyzed, params[1])
                 /\ UNCHANGED aggError
    /\ UNCHANGED <<params, pending, responses, routeResults, settled>>
    /\ UNCHANGED <<acctVars, lastCall, bridgeVars>>

\* Promise.all rejects as soon as one promise rejects and resolves when all have
AfterPromiseAll ==
    /\ aggPc = "awaiting"
    /\ \/ pending = {}
       \/ \E k \in DOMAIN routeResults : routeResults[k].rejected
    /\ IF \E k \in DOMAIN routeResults : routeResults[k].rejected
       THEN /\ aggPc' = "thrown"
            /\ aggError' = Some("provider query failed")
            /\ UNCHANGED <<analyzedRoutes, splitStrategies>>
       ELSE LET allRoutes == AllRoutes(routeResults) IN
            IF Len(allRoutes) = 0
            THEN /\ aggPc' = "thrown"
                 /\ aggError' = Some("no protocol could provide a route")
                 /\ UNCHANGED <<analyzedRoutes, splitStrategies>>
            ELSE \E analyzed \in {analyzeBasicRoutes(allRoutes)} :
                 /\ aggPc' = "returned"
                 /\ analyzedRoutes' = analyzed
                 /\ splitStrategies' = generateMultiProtocolSplits(analyzed, params[1])
                 /\ UNCHANGED aggError
    /\ UNCHANGED <<params, pending, responses, routeResults, settled>>
    /\ UNCHANGED <<acctVars, lastCall, bridgeVars>>

DoGetAggregatedRoutes == \E p \in Params : GetAggregatedRoutes(p)

InitAggregator == Deployed(1, <<2, 3>>, 2) /\ AggregatorIdle /\ BridgeIdle

NextAggregator ==
    \/ DoGetAggregatedRoutes
    \/ LiFiResponds
    \/ AcrossResponds
    \/ AfterPromiseAll

SpecAggregator == InitAggregator /\ [][NextAggregator]_vars

\* every axios request carries a timeout (10 s, 15 s), so each query settles, and the
\* event loop runs the continuation of Promise.all once it can
SpecAggregatorFair ==
    /\ SpecAggregator
    /\ WF_vars(LiFiResponds)
    /\ WF_vars(AcrossResponds)
    /\ WF_vars(AfterPromiseAll)

\* the duration estimates around the thresholds of assessTimeSecurity
Durations == {0, 1, 5, 6, 30, 31, 120, 121, 600, 601}
TimedLiFiResponses ==
    {Body([id |-> Some("lifi-quote"), tool |-> Some("Relay"),
           estimate |-> Some([executionDuration |-> Some(d), gasCosts |-> None,
                              feeCosts |-> None, fromAmountUSD |-> Some(1000),
                              toAmountUSD |-> Some(995)]),
           includedSteps |-> Some(2)]) : d \in Durations}
TimedAcrossResponses ==
    {Body([id |-> None, totalRelayFee |-> Some(0), estimatedFillTimeSec |-> Some(d)]) :
        d \in Durations}

LiFiRespondsTimed == \E response \in TimedLiFiResponses : ProviderResponds("lifi", response)
AcrossRespondsTimed ==
    \E response \in TimedAcrossResponses : ProviderResponds("across", response)

NextTimeSecurity ==
    \/ DoGetAggregatedRoutes
    \/ LiFiRespondsTimed
    \/ AcrossRespondsTimed
    \/ AfterPromiseAll

SpecTimeSecurity == InitAggregator /\ [][NextTimeSecurity]_vars

\* C38: a route whose duration estimate is the number d has timeSecurity 98 for d <= 5,
\* 92 for 5 < d <= 30, 85 for 30 < d <= 120, 75 for 120 < d <= 600 and 60 for d > 600;
\* so of two analysed routes the one with the longer duration never has the higher
\* timeSecurity.
C38_TimeSecurityBuckets ==
    aggPc = "returned" =>
        LET scored == {i \in 1..Len(analyzedRoutes) :
                          /\ analyzedRoutes[i].executionDuration # None
                          /\ analyzedRoutes[i].securityAnalysis.protocolSecurity > 0}
            d(i) == analyzedRoutes[i].executionDuration[1]
            timeSecurity(i) == analyzedRoutes[i].securityAnalysis.timeSecurity
        IN  /\ \A i \in scored :
                  timeSecurity(i) = IF d(i) <= 5 THEN 98
                                    ELSE IF d(i) <= 30 THEN 92
                                    ELSE IF d(i) <= 120 THEN 85
                                    ELSE IF d(i) <= 600 THEN 75
                                    ELSE 60
            /\ \A i, j \in scored : d(i) <= d(j) => timeSecurity(i) >= timeSecurity(j)

(***************************************************************************)
(* Properties of the aggregator.                                           *)
(***************************************************************************)
\* the provider was not asked, answered with an error, ran into the timeout, or
\* answered without the fields a quote needs
ProviderFailed(protocolKey) ==
    \/ protocolKey \notin DOMAIN responses
    \/ responses[protocolKey].kind \in {"error", "timeout"}
    \/ /\ responses[protocolKey].kind = "data"
       /\ protocolKey = "lifi"
       /\ \/ responses[protocolKey].data[1].id = None
          \/ responses[protocolKey].data[1].estimate = None
    \/ /\ responses[protocolKey].kind = "data"
       /\ protocolKey = "across"
       /\ responses[protocolKey].data[1].totalRelayFee = None

AllProtocols == {ProtocolKeys[i] : i \in 1..Len(ProtocolKeys)}
Finished == aggPc \in {"returned", "thrown"}

\* C5: when getAggregatedRoutes finishes, it has raised its error exactly when
\* every provider failed; when at least one provider succeeded it returns at least
\* one strategy, every route of every strategy comes from a provider that
\* succeeded, and each successful provider's route has been analysed.
C5_PartialFailureTolerated ==
    Finished =>
        /\ pending = {}
        /\ (aggPc = "thrown") <=> (\A k \in AllProtocols : ProviderFailed(k))
        /\ aggPc = "thrown" => aggError = Some("no protocol could provide a route")
        /\ aggPc = "returned" =>
              /\ aggError = None
              /\ Len(splitStrategies) >= 1
              /\ Len(analyzedRoutes) = Cardinality({k \in AllProtocols : ~ProviderFailed(k)})
              /\ \A k \in AllProtocols :
                    ~ProviderFailed(k) => \E i \in 1..Len(analyzedRoutes) : analyzedRoutes[i].protocol = k
              /\ \A s \in 1..Len(splitStrategies) :
                    \A i \in 1..Len(splitStrategies[s].routes) :
                        LET route == splitStrategies[s].routes[i] IN
                        /\ ~ProviderFailed(route.protocol)
                        /\ \E j \in 1..Len(routeResults[route.protocol].routes) :
                              routeResults[route.protocol].routes[j].id = route.id

\* Li.Fi timed out, Across quoted, and the strategies are built on the Across route
C5_Witness ==
    /\ aggPc = "returned"
    /\ "lifi" \in DOMAIN responses
    /\ responses["lifi"].kind = "timeout"
    /\ Len(splitStrategies) = 1
    /\ splitStrategies[1].routes[1].protocol = "across"

\* the key of the route is not in the reputation table
UnknownProtocol(route) ==
    LET name == IF route.tool # None /\ route.tool[1] # "" THEN route.tool[1] ELSE route.protocol
    IN  toLowerCase(name) \notin {"relay", "across", "lifi"}

\* C6: every analysed route whose protocol key (its tool, else its provider id) is
\* not in the reputation table has overallSecurity 0, protocolSecurity 0 and a
\* non-empty list of risk factors; no default score stands in for the missing data.
C6_UnknownProtocolScoresZero ==
    \A i \in 1..Len(analyzedRoutes) :
        UnknownProtocol(analyzedRoutes[i]) =>
            /\ analyzedRoutes[i].overallSecurity = 0
            /\ analyzedRoutes[i].securityAnalysis.protocolSecurity = 0
            /\ analyzedRoutes[i].riskFactors # <<>>

\* a Li.Fi route through the unlisted tool "stargate" has been analysed
C6_Witness ==
    /\ aggPc = "returned"
    /\ \E i \in 1..Len(analyzedRoutes) :
          /\ analyzedRoutes[i].tool = Some("stargate")
          /\ analyzedRoutes[i].overallSecurity = 0
          /\ Len(analyzedRoutes[i].riskFactors) = 1

\* C9: a multi-protocol-split strategy over r1, r2 with total amount A has exactly
\* two splits, of 0.7*A at 70% and 0.3*A at 30%, estimatedTime = max of the two
\* durations and totalFees = 0.7*fee(r1) + 0.3*fee(r2) (an absent duration or fee
\* counts as 0).
C9_SplitSeventyThirty ==
    \A s \in 1..Len(splitStrategies) :
        splitStrategies[s].strategy = "multi-protocol-split" =>
            LET st == splitStrategies[s]
                A == 10 * params[1].amount
                r1 == st.routes[1]
                r2 == st.routes[2]
                duration(r) == IF r.executionDuration = None THEN 0 ELSE r.executionDuration[1]
                fee(r) == IF r.totalFee = None THEN 0 ELSE 10 * r.totalFee[1]
            IN  /\ Len(st.routes) = 2
                /\ Len(st.splits) = 2
                /\ st.totalAmount = A
                /\ 10 * st.splits[1].amount = 7 * A
                /\ 10 * st.splits[2].amount = 3 * A
                /\ st.splits[1].percentage = 70
                /\ st.splits[2].percentage = 30
                /\ st.splits[1].route = r1
                /\ st.splits[2].route = r2
                /\ st.estimatedTime = Max(duration(r1), duration(r2))
                /\ 10 * st.totalFees = 7 * fee(r1) + 3 * fee(r2)

\* amount 1.0, fees 0.002 and 0.003, durations 20 s and 90 s: splits 0.7 and 0.3,
\* estimatedTime 90, totalFees 0.0023
C9_Witness ==
    /\ aggPc = "returned"
    /\ params[1].amount = 10
    /\ \E s \in 1..Len(splitStrategies) :
          /\ splitStrategies[s].strategy = "multi-protocol-split"
          /\ splitStrategies[s].routes[1].totalFee = Some(2)
          /\ splitStrategies[s].routes[2].totalFee = Some(3)
          /\ splitStrategies[s].routes[1].executionDuration = Some(20)
          /\ splitStrategies[s].routes[2].executionDuration = Some(90)
          /\ splitStrategies[s].splits[1].amount = 70
          /\ splitStrategies[s].splits[2].amount = 30
          /\ splitStrategies[s].estimatedTime = 90
          /\ splitStrategies[s].totalFees = 23

\* Math.round of the percentage-weighted mean of the split routes' overallSecurity
BlendedSecurity(strategy) ==
    (Sum([i \in 1..Len(strategy.splits) |->
            strategy.splits[i].percentage * strategy.splits[i].route.overallSecurity]) + 50)
        \div 100

\* C17: the securityScore of every returned strategy is the split-percentage-weighted
\* blend of its routes' overallSecurity (the route's own overallSecurity for a single
\* route, round(0.7*s1 + 0.3*s2) for a 70/30 split); a route without protocol data
\* counts with overallSecurity 0.
C17_SecurityScoreIsBlend ==
    \A s \in 1..Len(splitStrategies) :
        splitStrategies[s].securityScore = BlendedSecurity(splitStrategies[s])

\* C18: the returned strategies are in descending order of securityScore*0.4 +
\* speedFactor*0.3 + feeFactor*0.3: no strategy is placed behind one with a lower
\* composite score.
C18_RankedByCompositeScore ==
    \A i, j \in 1..Len(splitStrategies) :
        i < j => ~Greater(calculateStrategyScore(splitStrategies[j]),
                          calculateStrategyScore(splitStrategies[i]))

\* the strategies of the given kind among those returned
StrategiesOfKind(kind) ==
    {s \in 1..Len(splitStrategies) : splitStrategies[s].strategy = kind}
\* the providers that contributed a route
Providers == {analyzedRoutes[i].protocol : i \in 1..Len(analyzedRoutes)}

C20_SplitLegsTopRanked ==
    \A s \in StrategiesOfKind("multi-protocol-split") :
        LET leg1 == splitStrategies[s].splits[1].route
            leg2 == splitStrategies[s].splits[2].route
        IN  /\ leg1.protocol # leg2.protocol
            /\ \A i \in 1..Len(analyzedRoutes) :
                  ~Greater(RouteScore(analyzedRoutes[i]), RouteScore(leg1))
            /\ \A i \in 1..Len(analyzedRoutes) :
                  analyzedRoutes[i].protocol # leg1.protocol =>
                      ~Greater(RouteScore(analyzedRoutes[i]), RouteScore(leg2))

\* C21: for every analysed route whose protocol is in the reputation table,
\* overallSecurity is the weighted sum 0.30*protocol + 0.25*liquidity + 0.20*time +
\* 0.15*fee + 0.10*complexity of its five sub-scores rounded to the nearest integer
\* (halves up) and lies in 0..100; for every other route it is 0.
C21_OverallSecurityWeighted ==
    \A i \in 1..Len(analyzedRoutes) :
        LET route == analyzedRoutes[i]
            a == route.securityAnalysis
            hundredfold == 30 * a.protocolSecurity + 25 * a.liquiditySecurity
                           + 20 * a.timeSecurity + 15 * a.feeSecurity + 10 * a.routeComplexity
        IN  /\ route.overallSecurity \in 0..100
            /\ ~UnknownProtocol(route) =>
                  /\ 100 * route.overallSecurity - 50 <= hundredfold
                  /\ hundredfold < 100 * route.overallSecurity + 50
                  /\ a.protocolSecurity > 0
            /\ UnknownProtocol(route) => route.overallSecurity = 0

\* an Across route with fill time 90 s: 89, 75, 85, 75 and 95 give 83.2, hence 83
C21_Witness ==
    /\ aggPc = "returned"
    /\ \E i \in 1..Len(analyzedRoutes) :
          /\ analyzedRoutes[i].protocol = "across"
          /\ analyzedRoutes[i].securityAnalysis =
                [protocolSecurity |-> 89, liquiditySecurity |-> 75, timeSecurity |-> 85,
                 feeSecurity |-> 75, routeComplexity |-> 95]
          /\ analyzedRoutes[i].overallSecurity = 83

\* the route an analysed route was computed from
RouteInput(analyzed) ==
    [f \in DOMAIN analyzed \ {"securityAnalysis", "overallSecurity", "riskFactors"} |->
        analyzed[f]]

C24_MergeAfterAllSettle ==
    /\ \A k \in DOMAIN responses :
          /\ routeResults[k] = QueryProtocol(k, responses[k])
          /\ \A i \in 1..Len(routeResults[k].routes) : routeResults[k].routes[i].protocol = k
    /\ pending # {} => (aggPc \in {"idle", "awaiting"} /\ analyzedRoutes = <<>>
                        /\ splitStrategies = <<>>)
    /\ aggPc = "returned" =>
          /\ Len(analyzedRoutes) = Sum([i \in 1..Len(ProtocolKeys) |->
                                           Len(routeResults[ProtocolKeys[i]].routes)])
          /\ \A i, j \in 1..Len(analyzedRoutes) :
                (i < j /\ analyzedRoutes[i].protocol # analyzedRoutes[j].protocol) =>
                    \E a, b \in 1..Len(ProtocolKeys) :
                        /\ a < b
                        /\ ProtocolKeys[a] = analyzedRoutes[i].protocol
                        /\ ProtocolKeys[b] = analyzedRoutes[j].protocol
          /\ splitStrategies = generateMultiProtocolSplits(analyzedRoutes, params[1])

\* Across settled before Li.Fi, both gave a route, and the Li.Fi route comes first
C24_Witness ==
    /\ aggPc = "returned"
    /\ settled = << "across", "lifi" >>
    /\ Len(analyzedRoutes) = 2
    /\ analyzedRoutes[1].protocol = "lifi"
    /\ analyzedRoutes[2].protocol = "across"

\* C25: when every provider query eventually answers, fails or times out, every
\* getAggregatedRoutes call eventually returns or raises its error; a query that
\* timed out leaves the same result as one that failed.
C25_QueryCompletes ==
    /\ (aggPc = "awaiting") ~> Finished
    /\ [](\A k \in DOMAIN responses :
             responses[k].kind = "timeout" =>
                 /\ routeResults[k] = QueryProtocol(k, Failure("error"))
                 /\ routeResults[k].routes = <<>>)

\* a call has returned strategies although one of its queries timed out
C25_Witness ==
    /\ aggPc = "returned"
    /\ \E k \in DOMAIN responses : responses[k].kind = "timeout"
    /\ Len(splitStrategies) > 0

(***************************************************************************)
(* MultiProtocolAggregator: token symbol to address resolution for the     *)
(* provider requests.                                                      *)
(***************************************************************************)
\* getTokenAddress's table
tokenMap ==
    (1 :> [ETH |-> "0xEeeeeEeeeEeEeeEeEeEeeEEEeeeeEeeeeeeeEEeE",
           USDC |-> "0xA0b86991c6218b36c1d19D4a2e9Eb0cE3606eB48",
           USDT |-> "0xdAC17F958D2ee523a2206206994597C13D831ec7",
           WETH |-> "0xC02aaA39b223FE8D0A0e5C4F27eAD9083C756Cc2"])
    @@ (42161 :> [ETH |-> "0xEeeeeEeeeEeEeeEeEeEeeEEEeeeeEeeeeeeeEEeE",
                  USDC |-> "0xaf88d065e77c8cC2239327C5EDb3A432268e5831",
                  USDT |-> "0xFd086bC7CD5C481DCC9C85ebE478A1C0b69FCbb9",
                  WETH |-> "0x82aF49447D8a07e3bd95BD0d56f35241523fBab1"])
    @@ (137 :> [MATIC |-> "0xEeeeeEeeeEeEeeEeEeEeeEEEeeeeEeeeeeeeEEeE",
                USDC |-> "0x3c499c542cEF5E3811e1192ce70d8cC03d5c3359",
                USDT |-> "0xc2132D05D31c914a87C6611C10748AEb04B58e8F",
                WETH |-> "0x7ceB23fD6bC0adD59E62ac25578270cFf1b9f619"])

\* table[chainId]?.[tokenSymbol]
Lookup(table, chainId, tokenSymbol) ==
    IF chainId \in DOMAIN table /\ tokenSymbol \in DOMAIN table[chainId]
    THEN Some(table[chainId][tokenSymbol])
    ELSE None

getTokenAddress(tokenSymbol, chainId) ==
    LET address == Lookup(tokenMap, chainId, tokenSymbol) IN
    IF address # None THEN address[1] ELSE tokenSymbol

\* getAcrossTokenAddress's table
acrossTokenMap ==
    (1 :> [ETH |-> "0xC02aaA39b223FE8D0A0e5C4F27eAD9083C756Cc2",
           WETH |-> "0xC02aaA39b223FE8D0A0e5C4F27eAD9083C756Cc2",
           USDC |-> "0xA0b86991c6218b36c1d19D4a2e9Eb0cE3606eB48",
           USDT |-> "0xdAC17F958D2ee523a2206206994597C13D831ec7",
           DAI |-> "0x6B175474E89094C44Da98b954EedeAC495271d0F"])
    @@ (10 :> [ETH |-> "0x4200000000000000000000000000000000000006",
               WETH |-> "0x4200000000000000000000000000000000000006",
               USDC |-> "0x0b2C639c533813f4Aa9D7837CAf62653d097Ff85",
               USDT |-> "0x94b008aA00579c1307B0EF2c499aD98a8ce58e58"])
    @@ (42161 :> [ETH |-> "0x82aF49447D8a07e3bd95BD0d56f35241523fBab1",
                  WETH |-> "0x82aF49447D8a07e3bd95BD0d56f35241523fBab1",
                  USDC |-> "0xaf88d065e77c8cC2239327C5EDb3A432268e5831",
                  USDT |-> "0xFd086bC7CD5C481DCC9C85ebE478A1C0b69FCbb9"])
    @@ (137 :> [MATIC |-> "0x0d500B1d8E8eF31E21C99d1Db9A6444d3ADf1270",
                WMATIC |-> "0x0d500B1d8E8eF31E21C99d1Db9A6444d3ADf1270",
                USDC |-> "0x3c499c542cEF5E3811e1192ce70d8cC03d5c3359",
                USDT |-> "0xc2132D05D31c914a87C6611C10748AEb04B58e8F",
                WETH |-> "0x7ceB23fD6bC0adD59E62ac25578270cFf1b9f619"])
    @@ (8453 :> [ETH |-> "0x4200000000000000000000000000000000000006",
                 WETH |-> "0x4200000000000000000000000000000000000006",
                 USDC |-> "0x833589fCD6eDb6E08f4c7C32D4f71b54bdA02913"])

\* String.prototype.toUpperCase on the symbols of TokenSymbols
toUpperCase(str) ==
    CASE str = "eth" -> "ETH"
      [] str = "usdc" -> "USDC"
      [] str = "Dai" -> "DAI"
      [] OTHER -> str

getAcrossTokenAddress(tokenSymbol, chainId) ==
    LET address == Lookup(acrossTokenMap, chainId, toUpperCase(tokenSymbol)) IN
    IF address = None THEN getTokenAddress(tokenSymbol, chainId) ELSE address[1]

\* the symbols and chains a caller may name: listed and unlisted ones, in either case
TokenSymbols == {"ETH", "WETH", "USDC", "USDT", "DAI", "MATIC", "WMATIC", "eth", "usdc", "Dai",
                 "OP"}
TokenChains == {1, 10, 56, 137, 8453, 42161}

\* getLiFiRoutes builds the fromToken of its /quote request (the toToken likewise)
LiFiTokenParam ==
    \E tokenSymbol \in TokenSymbols, chainId \in TokenChains :
        /\ tokenQuery = None
        /\ tokenQuery' = Some([protocol |-> "lifi", tokenSymbol |-> tokenSymbol,
                               chainId |-> chainId])
        /\ tokenSent' = Some(getTokenAddress(tokenSymbol, chainId))
        /\ UNCHANGED <<acctVars, lastCall, aggVars, factoryVars, acrossRoute, callData, strategyGiven,
                       executionData, router, routeCall>>

\* getAcrossRoutes builds the token of its /suggested-fees request
AcrossTokenParam ==
    \E tokenSymbol \in TokenSymbols, chainId \in TokenChains :
        /\ tokenQuery = None
        /\ tokenQuery' = Some([protocol |-> "across", tokenSymbol |-> tokenSymbol,
                               chainId |-> chainId])
        /\ tokenSent' = Some(getAcrossTokenAddress(tokenSymbol, chainId))
        /\ UNCHANGED <<acctVars, lastCall, aggVars, factoryVars, acrossRoute, callData, strategyGiven,
                       executionData, router, routeCall>>

NextTokens == LiFiTokenParam \/ AcrossTokenParam
SpecTokens == InitAccount /\ [][NextTokens]_vars

\* C23: the token address sent to a provider is the entry of that provider's own
\* table for the chain and symbol asked for; a request is never built with the raw
\* symbol or with an entry of the other provider's table in the place of the address.
C23_TokenFromOwnTable ==
    tokenSent # None =>
        LET q == tokenQuery[1]
            table == IF q.protocol = "across" THEN acrossTokenMap ELSE tokenMap
        IN  /\ q.chainId \in DOMAIN table
            /\ \E sym \in DOMAIN table[q.chainId] : tokenSent[1] = table[q.chainId][sym]
            /\ tokenSent[1] # q.tokenSymbol

(***************************************************************************)
(* SmartAggregatorBridge.generateAcrossCallData.  A JavaScript value is    *)
(* one of: "undefined" (the property is absent), "null", "zero" (the       *)
(* number 0), "empty" (the string ""), "zeroAddress" (the string of        *)
(* address(0)), "notANumber" (a string that is no integer) and "present"   *)
(* (any other value of the right type).                                    *)
(***************************************************************************)
Falsy(v) == v \in {"undefined", "null", "zero", "empty"}
\* ethers can encode the value as an address or an unsigned integer
Encodable(v) == v \in {"present", "zero", "zeroAddress"}

AcrossFields ==
    << "inputToken", "outputToken", "inputAmount", "outputAmount", "destinationChainId",
       "exclusiveRelayer", "quoteTimestamp", "fillDeadline", "exclusivityDeadline" >>

\* the nine values the function extracts from route.estimate, route and route.rawData
AcrossQuotes ==
    [inputToken : {"undefined", "present"},
     outputToken : {"undefined", "present"},
     inputAmount : {"undefined", "empty", "notANumber", "present"},
     outputAmount : {"undefined", "present"},
     destinationChainId : {"undefined", "zero", "present"},
     exclusiveRelayer : {"undefined", "null", "zeroAddress", "present"},
     quoteTimestamp : {"undefined", "present"},
     fillDeadline : {"undefined", "present"},
     exclusivityDeadline : {"undefined", "null", "zero", "present"}]

Thrown(message, fields) == [ok |-> FALSE, message |-> message, missingFields |-> fields,
                            args |-> None]
Returned(args) == [ok |-> TRUE, message |-> "", missingFields |-> <<>>, args |-> Some(args)]

\* the if-statements that fill missingFields
IsMissing(field, v) == IF field = "exclusivityDeadline" THEN v = "undefined" ELSE Falsy(v)

\* depositV3's arguments in the order they are encoded
DepositV3Args(route, userAddress, exclusiveRelayer) ==
    [depositor |-> "zeroAddress", recipient |-> userAddress,
     inputToken |-> route.inputToken, outputToken |-> route.outputToken,
     inputAmount |-> route.inputAmount, outputAmount |-> route.outputAmount,
     destinationChainId |-> route.destinationChainId,
     exclusiveRelayer |-> exclusiveRelayer,
     quoteTimestamp |-> route.quoteTimestamp, fillDeadline |-> route.fillDeadline,
     exclusivityDeadline |-> route.exclusivityDeadline, message |-> "0x"]

\* a construction that fills in address(0) for a route without exclusiveRelayer
generateAcrossCallDataDefaultRelayer(route, userAddress) ==
    LET missingFields == SelectSeq(AcrossFields,
                                   LAMBDA f : f # "exclusiveRelayer" /\ IsMissing(f, route[f]))
        exclusiveRelayer == IF Falsy(route.exclusiveRelayer) THEN "zeroAddress"
                            ELSE route.exclusiveRelayer
    IN  IF Len(missingFields) > 0
        THEN Thrown("Across route data incomplete, missing required fields", missingFields)
        ELSE IF route.inputAmount = "notANumber" \/ route.outputAmount = "notANumber"
        THEN Thrown("Across amount format invalid", <<>>)
        ELSE IF ~Encodable(route.exclusivityDeadline)
        THEN Thrown("invalid value for uint32", <<>>)
        ELSE Returned(DepositV3Args(route, userAddress, exclusiveRelayer))

\* BigInt() throws on a string that is no integer; encodeFunctionData throws on a
\* value it cannot encode
generateAcrossCallData(route, userAddress) ==
    LET missingFields == SelectSeq(AcrossFields, LAMBDA f : IsMissing(f, route[f])) IN
    IF Len(missingFields) > 0
    THEN Thrown("Across route data incomplete, missing required fields", missingFields)
    ELSE IF route.inputAmount = "notANumber" \/ route.outputAmount = "notANumber"
    THEN Thrown("Across amount format invalid", <<>>)
    ELSE IF ~Encodable(route.exclusivityDeadline)
    THEN Thrown("invalid value for uint32", <<>>)
    ELSE Returned(DepositV3Args(route, userAddress, route.exclusiveRelayer))

GenerateAcrossCallData(route, userAddress) ==
    /\ acrossRoute = None
    /\ acrossRoute' = Some(route)
    /\ callData' = Some(generateAcrossCallData(route, userAddress))
    /\ UNCHANGED <<acctVars, lastCall, aggVars, factoryVars, tokenQuery, tokenSent, strategyGiven,
                   executionData, router, routeCall>>

DoGenerateAcrossCallData == \E route \in AcrossQuotes : GenerateAcrossCallData(route, "user")

InitBridge == Deployed(1, <<2, 3>>, 2) /\ AggregatorIdle /\ BridgeIdle
NextBridge == DoGenerateAcrossCallData
SpecBridge == InitBridge /\ [][NextBridge]_vars

(***************************************************************************)
(* SmartAggregatorBridge.generateContractExecutionData.  A route carries   *)
(* tool and protocol, rawData.transactionRequest.data ("undefined",        *)
(* "present": a 0x string of ten characters or more, "notHex") and .value, *)
(* fromAmount and toAmount (absent or a decimal string, held as its        *)
(* number), estimate.inputToken.chainId, and the seven other values of an  *)
(* Across quote.  Amounts are in wei.                                      *)
(***************************************************************************)
\* the result of a step that threw
Failed(message) == Thrown(message, <<>>)

\* None where the function throws
normalizeProtocolName(protocol) ==
    LET lower == toLowerCase(protocol) IN
    IF lower = "across" THEN Some("Across")
    ELSE IF lower \in {"lifi", "li.fi", "relay"} THEN Some("LiFi")
    ELSE IF lower = "ccip" THEN Some("CCIP")
    ELSE None

spokePools ==
    (1 :> "0x5c7BCd6E7De5423a257D81B442095A1a6ced35C5")
    @@ (42161 :> "0xe35e9842fceaCA96570B734083f4a58e8F7C5f2A")
    @@ (10 :> "0x6f26Bf09B1C792e3228e5467807a900A503c0281")
    @@ (137 :> "0x9295ee1d8C5b022Be115A2AD3c30C72E34e7F096")
    @@ (8453 :> "0x09aea4b2242abC8bb4BB78D537A67a245A7bEC64")

getBridgeAddress(protocol, route) ==
    LET normalized == normalizeProtocolName(protocol) IN
    IF normalized = None THEN Failed("unknown protocol name")
    ELSE IF normalized[1] = "LiFi" THEN Returned("0x1231DEB6f5749EF6cE6943a275A1D3E7486F4EaE")
    ELSE IF normalized[1] = "Across"
    THEN IF ~Truthy(route.chainId) THEN Failed("source chain id unknown")
         ELSE IF route.chainId[1] \notin DOMAIN spokePools
         THEN Failed("Across SpokePool does not support the chain")
         ELSE Returned(spokePools[route.chainId[1]])
    ELSE Failed("no bridge address for the protocol")

\* the calldata returned is the quote's own transactionRequest.data
generateLiFiCallData(route, userAddress) ==
    IF route.data = "undefined" THEN Failed("Li.Fi route data incomplete, missing transactionRequest.data")
    ELSE IF route.data = "notHex" THEN Failed("Li.Fi transactionRequest.data format invalid")
    ELSE Returned([transactionRequest |-> [data |-> route.data]])

\* the nine values generateAcrossCallData extracts from the route
AcrossView(route) ==
    route.quote @@ [inputAmount |-> IF Truthy(route.fromAmount) THEN "present" ELSE "undefined",
                    outputAmount |-> IF Truthy(route.toAmount) THEN "present" ELSE "undefined"]

generateCallData(protocol, route, userAddress) ==
    LET normalizedProtocol == normalizeProtocolName(protocol) IN
    IF normalizedProtocol = None THEN Failed("unknown protocol name")
    ELSE IF normalizedProtocol[1] = "LiFi" THEN generateLiFiCallData(route, userAddress)
    ELSE IF normalizedProtocol[1] = "Across"
    THEN generateAcrossCallData(AcrossView(route), userAddress)
    ELSE Failed("unsupported protocol")

\* a calculation that requires transactionRequest.value
calculateValueStrict(protocol, route) ==
    LET normalized == normalizeProtocolName(protocol) IN
    IF normalized = None THEN Failed("unknown protocol name")
    ELSE IF normalized[1] = "LiFi"
    THEN IF route.value = None THEN Failed("Li.Fi route data incomplete, missing transactionRequest.value")
         ELSE Returned(route.value[1])
    ELSE Returned(0)

calculateValue(protocol, route) ==
    LET normalized == normalizeProtocolName(protocol) IN
    IF normalized = None THEN Failed("unknown protocol name")
    ELSE IF normalized[1] = "LiFi"
    THEN IF route.value = None THEN Returned(0) ELSE Returned(route.value[1])
    ELSE Returned(0)

\* route.actualTool || route.tool || route.protocol
ProtocolOf(route) == IF TruthyStr(route.tool) THEN route.tool[1] ELSE route.protocol

\* the object literal that builds one ProtocolRoute: the first step that throws decides
ProtocolRoute(route, amount, userAddress) ==
    LET protocol == ProtocolOf(route)
        name == normalizeProtocolName(protocol)
        bridge == getBridgeAddress(protocol, route)
        data == generateCallData(protocol, route, userAddress)
        value == calculateValue(protocol, route)
    IN  IF name = None THEN Failed("unknown protocol name")
        ELSE IF ~bridge.ok THEN bridge
        ELSE IF ~data.ok THEN data
        ELSE IF ~value.ok THEN value
        ELSE Returned([protocol |-> name[1], bridge |-> bridge.args[1],
                       callData |-> data.args[1], value |-> value.args[1],
                       amount |-> amount])

\* a minimum that rounds up
calculateMinOutputCeiling(route) ==
    IF ~Truthy(route.toAmount) THEN Failed("route has no toAmount")
    ELSE Returned((route.toAmount[1] * 98 + 99) \div 100)

\* BigInt division truncates; the amounts are not negative
calculateMinOutput(route) ==
    IF ~Truthy(route.toAmount) THEN Failed("route has no toAmount")
    ELSE Returned((route.toAmount[1] * 98) \div 100)

calculateMinOutputForSplit(strategy) ==
    LET missing == {i \in 1..Len(strategy.splits) : ~Truthy(strategy.splits[i].route.toAmount)}
        totalOutput == Sum([i \in 1..Len(strategy.splits) |->
                               strategy.splits[i].route.toAmount[1]])
    IN  IF missing # {} THEN Failed("split route has no toAmount")
        ELSE Returned((totalOutput * 98) \div 100)

\* the execution data returned for the routes built and the minimum computed
ExecutionData(strategy, strategyType, protocolRoutes, minOutput, value) ==
    [success |-> TRUE,
     contractCallData |-> [functionName |-> "executeAggregatedRoute", value |-> value],
     aggregatedStrategy |->
         [strategyType |-> strategyType, routes |-> protocolRoutes,
          totalAmount |-> strategy.totalAmount, minOutput |-> minOutput,
          deadline |-> now + 3600,
          securityScore |-> OrElse(Some(strategy.securityScore), 75),
          estimatedTime |-> OrElse(Some(strategy.estimatedTime), 0)],
     protocolRoutes |-> protocolRoutes]

generateSingleRouteData(strategy, sourceToken, userAddress) ==
    LET route == strategy.routes[1]
        protocolRoute == ProtocolRoute(route, OrElse(route.fromAmount, strategy.totalAmount),
                                       userAddress)
        minOutput == calculateMinOutput(route)
    IN  IF ~protocolRoute.ok THEN protocolRoute
        ELSE IF ~minOutput.ok THEN minOutput
        ELSE Returned(ExecutionData(strategy, "single-route", << protocolRoute.args[1] >>,
                                    minOutput.args[1], protocolRoute.args[1].value))

\* Math.floor of a number held in tenths
MathFloor(tenths) == tenths \div 10

\* split.amount is the number amount * 0.7 or amount * 0.3, held in tenths
generateSplitRouteData(strategy, sourceToken, userAddress) ==
    LET built == [i \in 1..Len(strategy.splits) |->
                     ProtocolRoute(strategy.splits[i].route,
                                   MathFloor(strategy.splits[i].amount), userAddress)]
        failed == {i \in 1..Len(built) : ~built[i].ok}
        protocolRoutes == [i \in 1..Len(built) |-> built[i].args[1]]
        minOutput == calculateMinOutputForSplit(strategy)
    IN  IF failed # {} THEN built[CHOOSE i \in failed : \A j \in failed : i <= j]
        ELSE IF ~minOutput.ok THEN minOutput
        ELSE Returned(ExecutionData(strategy, "split-route", protocolRoutes, minOutput.args[1],
                                    Sum([i \in 1..Len(built) |-> protocolRoutes[i].value])))

generateContractExecutionData(strategy, sourceToken, userAddress) ==
    IF strategy.strategy = "best-single-route"
    THEN generateSingleRouteData(strategy, sourceToken, userAddress)
    ELSE IF strategy.strategy = "multi-protocol-split"
    THEN generateSplitRouteData(strategy, sourceToken, userAddress)
    ELSE Failed("unknown route strategy")

\* an Across quote with every value present
CompleteQuote ==
    [inputToken |-> "present", outputToken |-> "present", destinationChainId |-> "present",
     exclusiveRelayer |-> "present", quoteTimestamp |-> "present", fillDeadline |-> "present",
     exclusivityDeadline |-> "zero"]

\* the routes of a Li.Fi quote and of an Across quote, complete or with absent parts
BridgeRoutes ==
    [protocol : {"lifi"}, tool : {Some("relay"), Some("stargate")},
     data : {"undefined", "present", "notHex"}, value : {None, Some(0), Some(7)},
     fromAmount : {None, Some(10)}, toAmount : {None, Some(50), Some(101)},
     chainId : {None}, quote : {CompleteQuote}]
    \cup
    [protocol : {"across"}, tool : {Some("across")}, data : {"undefined"}, value : {None},
     fromAmount : {None, Some(10)}, toAmount : {None, Some(50), Some(101)},
     chainId : {None, Some(1), Some(56)},
     quote : {CompleteQuote, [CompleteQuote EXCEPT !.exclusiveRelayer = "undefined"],
              [CompleteQuote EXCEPT !.fillDeadline = "undefined"]}]

\* the strategies generateMultiProtocolSplits builds over such routes, and one of no
\* known kind
\* the amounts split: one below 1000, where the protocol fee is zero, 1000, and one
\* whose 70% and 30% are no whole numbers
SplitAmounts == {10, 1000, 1005}
BridgeStrategies ==
    LET Strategy(kind, legs, amount) ==
            [strategy |-> kind, routes |-> [i \in 1..Len(legs) |-> legs[i].route],
             splits |-> legs, totalAmount |-> amount, securityScore |-> 80,
             estimatedTime |-> 60]
    IN  {Strategy("best-single-route",
                  << [route |-> r, amount |-> 10 * 10, percentage |-> 100] >>, 10) :
            r \in BridgeRoutes}
        \cup {Strategy("multi-protocol-split",
                       << [route |-> r1, amount |-> amount * 7, percentage |-> 70],
                          [route |-> r2, amount |-> amount * 3, percentage |-> 30] >>,
                       amount) :
                 r1 \in {r \in BridgeRoutes : r.protocol = "lifi"},
                 r2 \in {r \in BridgeRoutes : r.protocol = "across"},
                 amount \in SplitAmounts}
        \cup {Strategy("cheapest", << >>, 10)}

GenerateContractExecutionData ==
    \E strategy \in BridgeStrategies :
        /\ strategyGiven = None
        /\ strategyGiven' = Some(strategy)
        /\ executionData' = Some(generateContractExecutionData(strategy, "ETH", "user"))
        /\ UNCHANGED <<acctVars, lastCall, aggVars, factoryVars, acrossRoute, callData, tokenQuery,
                       tokenSent, router, routeCall>>

SpecExecutionData == InitBridge /\ [][GenerateContractExecutionData]_vars

(***************************************************************************)
(* Properties of the execution data construction.                          *)
(***************************************************************************)
\* C22: execution data is returned only for a strategy every route of which carries
\* each parameter its bridge call needs: a Li.Fi route its transactionRequest data
\* and native value, an Across route its source chain, both amounts and the seven
\* other deposit values; with one of them absent the construction fails.
C22_NoDefaultForMissingParameter ==
    (executionData # None /\ executionData[1].ok) =>
        \A i \in 1..Len(strategyGiven[1].routes) :
            LET route == strategyGiven[1].routes[i]
                name == normalizeProtocolName(ProtocolOf(route))
            IN  /\ name = Some("LiFi") => (route.data # "undefined" /\ route.value # None)
                /\ name = Some("Across") =>
                      /\ route.chainId # None
                      /\ route.fromAmount # None /\ route.toAmount # None
                      /\ \A f \in DOMAIN route.quote : route.quote[f] # "undefined"

\* C26: the minOutput of returned execution data is the floor of 98% of the sum of
\* its routes' quoted toAmount, and no execution data is returned for a strategy
\* with a route that has no toAmount.
C26_MinOutputFloor ==
    executionData # None =>
        LET routes == strategyGiven[1].routes
            result == executionData[1]
        IN  /\ (\E i \in 1..Len(routes) : routes[i].toAmount = None) => ~result.ok
            /\ result.ok =>
                  LET totalOutput == Sum([i \in 1..Len(routes) |-> routes[i].toAmount[1]])
                      minOutput == result.args[1].aggregatedStrategy.minOutput
                  IN  /\ 100 * minOutput <= 98 * totalOutput
                      /\ 98 * totalOutput < 100 * (minOutput + 1)

\* a split over quotes of 101 and 50: 98% of 151 is 147.98, the minimum is 147
C26_Witness ==
    /\ executionData # None
    /\ executionData[1].ok
    /\ strategyGiven[1].strategy = "multi-protocol-split"
    /\ strategyGiven[1].routes[1].toAmount = Some(101)
    /\ strategyGiven[1].routes[2].toAmount = Some(50)
    /\ executionData[1].args[1].aggregatedStrategy.minOutput = 147

\* the holder of the router a bridge address of the execution data names
BridgeHolder(address) ==
    IF address = "0x1231DEB6f5749EF6cE6943a275A1D3E7486F4EaE" THEN "lifiDiamond"
    ELSE IF \E chainId \in DOMAIN spokePools : spokePools[chainId] = address THEN "spokePool"
    ELSE "otherBridge"

\* the strategy struct the contract receives for an aggregatedStrategy; calldata that
\* was built is not empty, and the fees are taken as zero
SubmittedStrategy(aggregatedStrategy) ==
    [strategyType |-> aggregatedStrategy.strategyType,
     routes |-> [i \in 1..Len(aggregatedStrategy.routes) |->
                    [protocol |-> aggregatedStrategy.routes[i].protocol,
                     bridge |-> BridgeHolder(aggregatedStrategy.routes[i].bridge),
                     callData |-> "data",
                     value |-> aggregatedStrategy.routes[i].value,
                     amount |-> aggregatedStrategy.routes[i].amount]],
     totalAmount |-> aggregatedStrategy.totalAmount,
     minOutput |-> aggregatedStrategy.minOutput,
     deadline |-> aggregatedStrategy.deadline,
     securityScore |-> aggregatedStrategy.securityScore,
     estimatedTime |-> aggregatedStrategy.estimatedTime,
     estimatedFees |-> 0]

\* the outcome of submitting returned execution data to the deployed contract at once,
\* by a caller that holds and has approved the tokens, every bridge pulling its amount
Submitted(data) ==
    executeAggregatedRoute(RouterDeployed, "user", "token",
                           SubmittedStrategy(data.aggregatedStrategy), TRUE,
                           <<"fills", "fills">>, now)

\* C33: the split-route execution data built from a multi-protocol-split strategy
\* passes the amount check of _executeSplitRoute: submitted to the contract, it does
\* not revert with 'Amount overflow'.
C33_SplitAmountsWithinNet ==
    (/\ executionData # None
     /\ executionData[1].ok
     /\ executionData[1].args[1].aggregatedStrategy.strategyType = "split-route")
    => Submitted(executionData[1].args[1]).reason # "Amount overflow"

\* C34: for a split strategy the minOutput computed is at most the output the
\* strategy is expected to deliver, 70% of the first route's quoted toAmount plus 30%
\* of the second's (each quote given for the full amount).
C34_SplitMinOutputReachable ==
    (/\ executionData # None
     /\ executionData[1].ok
     /\ strategyGiven[1].strategy = "multi-protocol-split")
    => 100 * executionData[1].args[1].aggregatedStrategy.minOutput
         <= Sum([i \in 1..Len(strategyGiven[1].splits) |->
                    strategyGiven[1].splits[i].percentage
                    * strategyGiven[1].splits[i].route.toAmount[1]])

(***************************************************************************)
(* Properties of the calldata construction.                                *)
(***************************************************************************)
\* C8: the construction fails whenever one of the nine required fields is absent,
\* and the error then names every absent field; a route without exclusiveRelayer
\* fails with an error naming "exclusiveRelayer", and whenever calldata is
\* produced its exclusiveRelayer argument is the one the route carries.
C8_MissingFieldsNamed ==
    callData # None =>
        LET route == acrossRoute[1]
            result == callData[1]
            absent == {AcrossFields[i] : i \in {j \in 1..Len(AcrossFields) :
                                                  route[AcrossFields[j]] = "undefined"}}
            named == {result.missingFields[i] : i \in 1..Len(result.missingFields)}
        IN  /\ absent # {} => (~result.ok /\ result.args = None /\ absent \subseteq named)
            /\ route.exclusiveRelayer \in {"undefined", "null"} =>
                  (~result.ok /\ "exclusiveRelayer" \in named)
            /\ result.ok =>
                  /\ result.args[1].exclusiveRelayer = route.exclusiveRelayer
                  /\ route.exclusiveRelayer \notin {"undefined", "null"}
                  /\ absent = {}

\* a complete quote except for exclusiveRelayer has been rejected, naming only that field
C8_Witness ==
    /\ callData # None
    /\ acrossRoute[1].exclusiveRelayer = "undefined"
    /\ ~callData[1].ok
    /\ callData[1].missingFields = << "exclusiveRelayer" >>

====
